---- MODULE Spec2Model ----
(***************************************************************************)
(* Model of the gd5 turn resolver (src/gd/mechanics.py, src/gd/world.py).  *)
(*                                                                         *)
(* A world is a set of territories (owner, troops, constructs) joined by   *)
(* boundaries.  Movements are created into an InstructionSet, which        *)
(* classifies them (set_movement_type), and are then executed.  execute    *)
(* is recursive in the source (an invasion first resolves the movements    *)
(* leaving its destination, a skirmish resolves its peers, a broken cycle  *)
(* continues the chain); the model computes one whole execute call as a    *)
(* recursive operator over a resolver state and returns the state it       *)
(* leaves behind together with the exception that escaped it, if any.      *)
(***************************************************************************)
EXTENDS Integers, Sequences, FiniteSets, TLC

\* ------------------------------------------------------------------------
\* Program constants
\* ------------------------------------------------------------------------
NUM_INVASION_PENALTY == 2

\* Player and territory ids start at 1 (itertools.count(1)); 0 stands for None.
None == 0

\* ------------------------------------------------------------------------
\* Bounds of the model
\* ------------------------------------------------------------------------
MaxInstr == 3        \* movements the caller creates
MaxCalls == 3        \* execute calls the caller makes
MaxTroops == 4       \* troops in a territory of a generated world
MaxNum == 4          \* troops a generated movement requests
MaxCycleCalls == 1   \* execute calls on a chain of invasions

VARIABLES
    territories,      \* World.territories: id -> [owner, troops, constructs]
    boundaries,       \* World.boundaries: set of pairs of territory ids
    instructions,     \* every Instruction created so far, by id
    instruction_set,  \* InstructionSet.instructions: ids in insertion order
    instruction_sets, \* Turn.instruction_sets in order: [phase, instructions]
    turn,             \* the Turn and the position of Turn.execute in it
    validated,        \* the caller's assert_is_valid calls so far: [id, exc]
    calls,            \* the caller's execute calls so far: [id, exc]
    finished,         \* ids in the order in which they were marked executed
    penalties,        \* per territory, the troops removed from it as invasion penalty
    fixture,          \* the world as the caller built it: [owners, troops]
    units,            \* every Unit created so far, by id: [cls, territory]
    territory_units,  \* Territory.units: per territory, unit ids in list order
    unit_call,        \* the caller's last call on a unit or on a territory's units
    chains,           \* every MovementChain created so far: the ids of its movements
    first_id          \* the id the first instruction got from Instruction.next_id

vars == <<territories, boundaries, instructions, instruction_set, instruction_sets, turn,
          validated, calls, finished, penalties, fixture, units, territory_units, unit_call,
          chains, first_id>>

\* ------------------------------------------------------------------------
\* Sequence helpers (Python list comprehensions keep the list order)
\* ------------------------------------------------------------------------
RECURSIVE FilterSeq(_, _, _)
FilterSeq(seq, keep, k) ==
    IF k > Len(seq) THEN <<>>
    ELSE IF seq[k] \in keep THEN <<seq[k]>> \o FilterSeq(seq, keep, k + 1)
    ELSE FilterSeq(seq, keep, k + 1)

Range(seq) == {seq[k] : k \in 1..Len(seq)}

SetMin(S) == CHOOSE x \in S : \A y \in S : x <= y

\* ------------------------------------------------------------------------
\* Resolver state: s.t = territories, s.m = instructions, s.log = finished,
\* s.pen = penalties.
\* A result is [s |-> state, exc |-> exception name or "none"].
\* ------------------------------------------------------------------------
Ok(s) == [s |-> s, exc |-> "none"]
Raise(s, e) == [s |-> s, exc |-> e]

Troops(s, t) == s.t[t].troops

SetTroops(s, t, n) == [s EXCEPT !.t[t].troops = n]

SetOwner(s, t, p) == [s EXCEPT !.t[t].owner = p]

\* Territory.is_empty: no units and no constructs.
is_empty(s, t) == s.t[t].troops = 0 /\ s.t[t].constructs = 0

\* Territory.is_neutral
is_neutral(s, t) == s.t[t].owner = None

\* Territory.adjacent_territories
adjacent_territories(t) ==
    {x \in DOMAIN territories :
        x # t /\ \E b \in boundaries : (b[1] = t \/ b[2] = t) /\ (b[1] = x \/ b[2] = x)}

\* Territory.remove_unit(Troop, amount, allow_insufficient_amount)
remove_unit(s, t, amount, allow) ==
    LET available == Troops(s, t) IN
    IF amount > available
    THEN IF ~allow THEN Raise(s, "InsufficientUnitsException")
         ELSE Ok(SetTroops(s, t, 0))
    ELSE IF amount < 0
         \* available[:amount] with a negative amount drops all but the last -amount units
         THEN Ok(SetTroops(s, t, IF available + amount > 0 THEN available - (available + amount) ELSE available))
         ELSE Ok(SetTroops(s, t, available - amount))

\* Territory.take_unit(Troop, amount, allow_insufficient_amount): selects units
\* without removing them.  n = how many units the returned value holds,
\* exc = the exception raised instead.
take_unit(s, t, amount, allow) ==
    LET available == Troops(s, t) IN
    IF amount < 0 THEN [n |-> 0, exc |-> "ValueError"]
    ELSE IF amount = 0 THEN [n |-> 0, exc |-> "none"]
    ELSE IF amount > available
         THEN IF ~allow THEN [n |-> 0, exc |-> "InsufficientUnitsException"]
              ELSE [n |-> available, exc |-> "none"]
         ELSE [n |-> amount, exc |-> "none"]

\* MoveUnits as it would be if the units arrived but did not leave.
MoveUnits_Copied(s, from, to, k) == [s EXCEPT !.t[to].troops = @ + k]

\* MoveUnits as it would be if the units left but did not arrive.
MoveUnits_Lost(s, from, to, k) == [s EXCEPT !.t[from].troops = @ - k]

\* Unit.move, for k units of one territory
MoveUnits(s, from, to, k) ==
    IF from = to THEN s
    ELSE [s EXCEPT !.t[from].troops = @ - k, !.t[to].troops = @ + k]

\* assert_is_valid as it would be if a movement had to leave a troop behind.
assert_is_valid_LeaveOne(s, i) ==
    LET m == s.m[i] IN
    IF s.t[m.origin].owner # m.issuer THEN "IssuerDoesNotOwnTerritory"
    ELSE IF m.num_troops >= Troops(s, m.origin) /\ ~m.allow_insufficient_troops
         THEN "InsufficientUnitsException"
    ELSE IF m.destination \notin adjacent_territories(m.origin)
         THEN "TargetTerritoryNotAdjacent"
    ELSE "none"

\* Movement.assert_is_valid: the exception it raises, or "none"
assert_is_valid(s, i) ==
    LET m == s.m[i] IN
    IF s.t[m.origin].owner # m.issuer THEN "IssuerDoesNotOwnTerritory"
    ELSE IF m.num_troops > Troops(s, m.origin) /\ ~m.allow_insufficient_troops
         THEN "InsufficientUnitsException"
    ELSE IF m.destination \notin adjacent_territories(m.origin)
         THEN "TargetTerritoryNotAdjacent"
    ELSE "none"

\* InstructionSet.movements / InstructionSet.instructions of instruction i's set
\* (reference 1 is the InstructionSet the caller built, k + 1 the k-th set of
\* the Turn)
SetInstructions(s, i) ==
    IF s.m[i].instruction_set = None THEN <<>>
    ELSE IF s.m[i].instruction_set = 1 THEN instruction_set
    ELSE instruction_sets[s.m[i].instruction_set - 1].instructions

SetField(s, i, f, v) == [s EXCEPT !.m[i] = [@ EXCEPT ![f] = v]]

Moved(s, i, k) == [s EXCEPT !.m[i].num_troops_moved = @ + k]

\* Still to move: _num_troops - _num_troops_moved
ToMove(s, i) == s.m[i].num_troops - s.m[i].num_troops_moved

\* resolve_invasion, lines 414-419: every other instruction of the set that is
\* flagged executing is set back to not executing.
ResetExecuting(s, i) ==
    [s EXCEPT !.m = [j \in DOMAIN s.m |->
        IF j # i /\ j \in Range(SetInstructions(s, i)) /\ s.m[j].is_executing
        THEN [s.m[j] EXCEPT !.is_executing = FALSE]
        ELSE s.m[j]]]

\* The one element of a singleton set.  Intermediate states are bound as
\* x \in {e}, so that e is evaluated once however often x is used.
Only(S) == CHOOSE x \in S : TRUE

\* resolve_invasion, lines 429 and 432: remove_unit(Troop) as a penalty.
Penalise(s, t) ==
    Only({IF r.exc # "none" THEN r ELSE Ok([r.s EXCEPT !.pen[t] = @ + 1]) :
            r \in {remove_unit(s, t, 1, FALSE)}})

\* resolve_invasion, lines 428-434: one iteration of the penalty loop.
PenaltyStep(s, i, is_mutual_invasion) ==
    Only({IF r1.exc # "none" THEN r1
          ELSE IF ~is_mutual_invasion THEN Ok(Moved(r1.s, i, 1))
          ELSE Only({IF r2.exc # "none" THEN r2 ELSE Ok(Moved(r2.s, i, 1)) :
                       r2 \in {Penalise(r1.s, s.m[i].destination)}}) :
            r1 \in {Penalise(s, s.m[i].origin)}})

\* resolve_invasion, lines 427-434: the penalty loop, from iteration k on.
RECURSIVE PenaltyLoop(_, _, _, _)
PenaltyLoop(s, i, k, is_mutual_invasion) ==
    IF k > NUM_INVASION_PENALTY THEN Ok(s)
    ELSE Only({IF r.exc # "none" THEN r ELSE PenaltyLoop(r.s, i, k + 1, is_mutual_invasion) :
                 r \in {PenaltyStep(s, i, is_mutual_invasion)}})

\* resolve_invasion, lines 446-448 and 456: one troop is lost on each side.
TradeStep(s, i) ==
    Moved(remove_unit(remove_unit(s, s.m[i].origin, 1, s.m[i].allow_insufficient_troops).s,
                      s.m[i].destination, 1, s.m[i].allow_insufficient_troops).s,
          i, 1)

\* resolve_invasion, lines 443-456: troops are traded one for one.
RECURSIVE TradeLoop(_, _)
TradeLoop(s, i) ==
    IF ~(s.m[i].num_troops > s.m[i].num_troops_moved) THEN s
    ELSE IF Troops(s, s.m[i].origin) > 0 /\ Troops(s, s.m[i].destination) > 0
         THEN Only({TradeLoop(s1, i) : s1 \in {TradeStep(s, i)}})
         ELSE s

\* resolve_expansion, lines 552-564: troops are moved one by one.
RECURSIVE MoveLoop(_, _)
MoveLoop(s, i) ==
    IF ~(s.m[i].num_troops > s.m[i].num_troops_moved) THEN Ok(s)
    ELSE Only({IF unit.exc # "none" THEN Raise(s, unit.exc)
               ELSE IF unit.n = 0 THEN Ok(s)
               ELSE Only({MoveLoop(s1, i) :
                            s1 \in {Moved(MoveUnits(s, s.m[i].origin, s.m[i].destination, 1), i, 1)}}) :
                 unit \in {take_unit(s, s.m[i].origin, 1, s.m[i].allow_insufficient_troops)}})

RECURSIVE execute(_, _)
RECURSIVE ExecuteEach(_, _, _, _)
RECURSIVE resolve_invasion(_, _)
RECURSIVE resolve_skirmish(_, _, _)
RECURSIVE resolve_expansion(_, _)
RECURSIVE SkirmishRound(_, _, _, _)
RECURSIVE SkirmishPeers(_, _, _)

\* "for instruction in list: instruction.execute()", from position k on; with
\* allow set, each one is first marked allow_insufficient_troops (line 632).
\* The first exception ends the loop.
ExecuteEach(s, list, k, allow) ==
    IF k > Len(list) THEN Ok(s)
    ELSE Only({Only({IF r.exc # "none" THEN r ELSE ExecuteEach(r.s, list, k + 1, allow) :
                       r \in {execute(s1, list[k])}}) :
                 s1 \in {IF allow THEN SetField(s, list[k], "allow_insufficient_troops", TRUE) ELSE s}})

\* TakeOver as it would be if the destination were handed to the attacker
\* whatever is left of the army.
TakeOver_Always(s, i) ==
    LET m == s.m[i]
        remainder == take_unit(s, m.origin, ToMove(s, i), m.allow_insufficient_troops)
    IN IF remainder.exc # "none" THEN Raise(s, remainder.exc)
       ELSE Ok(Moved(MoveUnits(SetOwner(s, m.destination, s.t[m.origin].owner),
                               m.origin, m.destination, remainder.n),
                     i, remainder.n))

\* TakeOver as it would be if an emptied destination kept its owner.
TakeOver_KeepOwner(s, i) ==
    LET m == s.m[i]
        remainder == take_unit(s, m.origin, ToMove(s, i), m.allow_insufficient_troops)
    IN IF remainder.exc # "none" THEN Raise(s, remainder.exc)
       ELSE IF remainder.n > 0
            THEN Ok(Moved(MoveUnits(SetOwner(s, m.destination, s.t[m.origin].owner),
                                    m.origin, m.destination, remainder.n),
                          i, remainder.n))
       ELSE Ok(s)

\* resolve_invasion, lines 458-475: what is left of the army takes the
\* destination; a destination left empty turns neutral.
TakeOver(s, i) ==
    LET m == s.m[i]
        remainder == take_unit(s, m.origin, ToMove(s, i), m.allow_insufficient_troops)
    IN IF remainder.exc # "none" THEN Raise(s, remainder.exc)
       ELSE IF remainder.n > 0
            THEN Ok(Moved(MoveUnits(SetOwner(s, m.destination, s.t[m.origin].owner),
                                    m.origin, m.destination, remainder.n),
                          i, remainder.n))
       ELSE IF is_empty(s, m.destination) THEN Ok(SetOwner(s, m.destination, None))
       ELSE Ok(s)

\* InvasionBattle as it would be if the penalty were incurred whether or not
\* the mutual invasion's other side was already executed.
InvasionBattle_PenaltyAgain(s, i) ==
    LET m == s.m[i]
        has_mutual == m.mutual_invasion # None
    IN Only({IF p.exc # "none" /\ ~(p.exc = "InsufficientUnitsException" /\ m.allow_insufficient_troops)
             THEN p
             ELSE Only({TakeOver(t, i) : t \in {TradeLoop(p.s, i)}}) :
               p \in {PenaltyLoop(s, i, 1, has_mutual)}})

\* resolve_invasion, lines 421-475: penalty, trade and take-over.
InvasionBattle(s, i) ==
    LET m == s.m[i]
        has_mutual == m.mutual_invasion # None
        is_mutual_invasion == has_mutual /\ ~s.m[m.mutual_invasion].is_executed
        should_incur_penalty == ~(has_mutual /\ s.m[m.mutual_invasion].is_executed)
    IN Only({IF p.exc # "none" /\ ~(p.exc = "InsufficientUnitsException" /\ m.allow_insufficient_troops)
             THEN p
             ELSE Only({TakeOver(t, i) : t \in {TradeLoop(p.s, i)}}) :
               p \in {IF should_incur_penalty THEN PenaltyLoop(s, i, 1, is_mutual_invasion) ELSE Ok(s)}})

\* BreakLoop as it would be if the highest origin id broke the cycle.
BreakLoop_Highest(s, i) ==
    LET executing == {j \in Range(SetInstructions(s, i)) : s.m[j].is_executing} IN
    IF executing = {} THEN Raise(s, "ValueError")
    ELSE LET last_origin_id == 0 - SetMin({0 - s.m[j].origin : j \in executing}) IN
         IF s.m[i].origin = last_origin_id
         THEN Ok(SetField(s, i, "is_part_of_loop", TRUE))
         ELSE Raise(SetField(s, i, "is_part_of_loop", TRUE), "UnwindingLoopedInstructions")

\* resolve_invasion, lines 389-411: a cycle was met below instruction i.
BreakLoop(s, i) ==
    LET executing == {j \in Range(SetInstructions(s, i)) : s.m[j].is_executing} IN
    IF executing = {} THEN Raise(s, "ValueError")   \* min() of an empty list
    ELSE LET first_origin_id == SetMin({s.m[j].origin : j \in executing}) IN
         IF s.m[i].origin = first_origin_id
         THEN Ok(SetField(s, i, "is_part_of_loop", TRUE))
         ELSE Raise(SetField(s, i, "is_part_of_loop", TRUE), "UnwindingLoopedInstructions")

\* Supersede as it would be if the movements that leave the destination were
\* left for later.
Supersede_Nothing(s, i) == Ok(s)

\* resolve_invasion, lines 380-419: the movements that leave the destination
\* are executed first.
Supersede(s, i) ==
    LET higher_priority_movements ==
            FilterSeq(SetInstructions(s, i),
                      {j \in DOMAIN s.m : s.m[j].origin = s.m[i].destination /\ ~s.m[j].is_executed}, 1)
    IN IF higher_priority_movements = <<>> THEN Ok(s)
       ELSE Only({IF r.exc \in {"InstructionAlreadyExecuting", "UnwindingLoopedInstructions"}
                  THEN Only({IF b.exc # "none" THEN b ELSE Ok(ResetExecuting(b.s, i)) :
                               b \in {BreakLoop(r.s, i)}})
                  ELSE IF r.exc # "none" THEN r
                  ELSE Ok(ResetExecuting(r.s, i)) :
                    r \in {ExecuteEach(s, higher_priority_movements, 1, FALSE)}})

\* Movement.resolve_invasion
resolve_invasion(s, i) ==
    Only({IF r.exc # "none" THEN r ELSE InvasionBattle(r.s, i) : r \in {Supersede(s, i)}})

\* resolve_expansion as it would be if it never looked at the destination's
\* owner.
resolve_expansion_NoRedirect(s, i) ==
    Only({MoveLoop(s1, i) : s1 \in {SetOwner(s, s.m[i].destination, s.m[i].issuer)}})

\* resolve_expansion as it would be if an origin left without troops were
\* turned neutral.
resolve_expansion_OriginNeutral(s, i) ==
    LET m == s.m[i]
        owner == s.t[m.destination].owner
    IN IF owner # None /\ owner # m.issuer THEN resolve_invasion(s, i)
       ELSE Only({IF r.exc = "none" /\ is_empty(r.s, m.origin)
                  THEN Ok(SetOwner(r.s, m.origin, None))
                  ELSE r :
                    r \in {MoveLoop(SetOwner(s, m.destination, m.issuer), i)}})

\* Movement.resolve_expansion
resolve_expansion(s, i) ==
    LET m == s.m[i]
        owner == s.t[m.destination].owner
    IN IF owner # None /\ owner # m.issuer THEN resolve_invasion(s, i)
       ELSE Only({MoveLoop(s1, i) : s1 \in {SetOwner(s, m.destination, m.issuer)}})

\* SkirmishLoss as it would be if the troop taken were not removed.
SkirmishLoss_NoRemove(s, j) ==
    LET unit == take_unit(s, s.m[j].origin, 1, FALSE)
    IN IF unit.exc # "none" THEN Raise(s, unit.exc) ELSE Ok(Moved(s, j, 1))

\* resolve_skirmish, lines 502-503 and 507-508: take_unit(Troop).remove() on
\* the origin of instruction j, which counts one more troop moved.
SkirmishLoss(s, j) ==
    LET o == s.m[j].origin
        unit == take_unit(s, o, 1, FALSE)
    IN IF unit.exc # "none" THEN Raise(s, unit.exc)
       ELSE Ok(Moved(SetTroops(s, o, Troops(s, o) - 1), j, 1))

\* resolve_skirmish, lines 506-508: one troop is taken from every peer's origin.
SkirmishPeers(s, skirmishes, k) ==
    IF k > Len(skirmishes) THEN Ok(s)
    ELSE Only({IF r.exc # "none" THEN r ELSE SkirmishPeers(r.s, skirmishes, k + 1) :
                 r \in {SkirmishLoss(s, skirmishes[k])}})

\* resolve_skirmish, lines 500-508: "rounds" more rounds of one troop each.
SkirmishRound(s, i, skirmishes, rounds) ==
    IF rounds <= 0 THEN Ok(s)
    ELSE Only({IF r1.exc # "none" THEN r1
               ELSE Only({IF r2.exc # "none" THEN r2
                          ELSE SkirmishRound(r2.s, i, skirmishes, rounds - 1) :
                            r2 \in {SkirmishPeers(r1.s, skirmishes, 1)}}) :
                 r1 \in {SkirmishLoss(s, i)}})

\* resolve_skirmish, lines 511-513: peers that moved all their troops are executed.
MarkSkirmishes(s, skirmishes) ==
    LET done == FilterSeq(skirmishes,
                          {j \in DOMAIN s.m : s.m[j].num_troops_moved = s.m[j].num_troops}, 1)
    IN [s EXCEPT !.m = [j \in DOMAIN s.m |->
                            IF j \in Range(done) THEN [s.m[j] EXCEPT !.is_executed = TRUE] ELSE s.m[j]],
                 !.log = @ \o FilterSeq(done, {j \in DOMAIN s.m : ~s.m[j].is_executed}, 1)]

\* resolve_skirmish, lines 527-536: what is left of the army moves on.
SkirmishOnward(s, i) ==
    LET m == s.m[i]
        rest == take_unit(s, m.origin, ToMove(s, i), FALSE)
    IN IF rest.exc # "none" THEN Raise(s, rest.exc)
       ELSE IF rest.n = 0 THEN Ok(s)
       ELSE IF is_neutral(s, m.destination) THEN resolve_expansion(s, i)
       ELSE resolve_invasion(s, i)

\* resolve_skirmish, lines 515-536: after a round of losses.
SkirmishRest(s, i, skirmishes) ==
    IF s.m[i].num_troops_moved = s.m[i].num_troops THEN Ok(s)
    ELSE LET remaining_skirmishes ==
                 FilterSeq(skirmishes, {j \in DOMAIN s.m : ~s.m[j].is_executed}, 1)
         IN Only({IF r.exc # "none" THEN r ELSE SkirmishOnward(r.s, i) :
                    r \in {IF remaining_skirmishes # <<>>
                           THEN resolve_skirmish(s, i, remaining_skirmishes)
                           ELSE Ok(s)}})

\* Movement.resolve_skirmish
resolve_skirmish(s, i, skirmishes) ==
    LET min_troops == SetMin({ToMove(s, j) : j \in Range(skirmishes)} \cup {ToMove(s, i)}) IN
    Only({IF r.exc # "none" THEN r
          ELSE Only({SkirmishRest(s1, i, skirmishes) : s1 \in {MarkSkirmishes(r.s, skirmishes)}}) :
            r \in {SkirmishRound(s, i, skirmishes, min_troops)}})

\* Movement.execute, lines 590-613: the resolver of the instruction's kind.
Resolve(s, i) ==
    LET m == s.m[i] IN
    CASE m.instruction_type \in {"EXPANSION", "DISTRIBUTION"} -> resolve_expansion(s, i)
      [] m.instruction_type = "SKIRMISH" ->
            IF m.skirmishing_movements = <<>>
            THEN Raise(s, "InstructionNoSkirmishingInstructions")
            ELSE resolve_skirmish(s, i, m.skirmishing_movements)
      [] m.instruction_type = "INVASION" -> resolve_invasion(s, i)
      [] m.instruction_type = "NONE" -> Raise(s, "AttributeError")
      [] OTHER -> Raise(s, "InvalidInstructionType")

\* ContinueLoop as it would be if the chain were never continued.
ContinueLoop_Never(s, i) == Ok(s)

\* Movement.execute, lines 622-632: an instruction that broke a cycle continues
\* the chain from its destination.
ContinueLoop(s, i) ==
    IF ~s.m[i].is_part_of_loop THEN Ok(s)
    ELSE LET movements_from_target ==
                 FilterSeq(SetInstructions(s, i),
                           {j \in DOMAIN s.m : s.m[j].origin = s.m[i].destination /\ ~s.m[j].is_executed}, 1)
         IN ExecuteEach(s, movements_from_target, 1, TRUE)

\* Movement.execute, lines 615-634: the instruction is marked executed.
Finish(s, i) ==
    Only({IF s1.t[s1.m[i].origin].owner = None
          THEN Raise(s1, "AttributeError")   \* origin.owner.name
          ELSE ContinueLoop(s1, i) :
            s1 \in {[s EXCEPT !.m[i].is_executed = TRUE, !.m[i].is_executing = FALSE,
                              !.log = Append(@, i)]}})

\* Movement.execute, lines 579-613: the instruction is validated and resolved.
Start(s, i) ==
    LET invalid == assert_is_valid(s, i) IN
    IF invalid # "none" THEN Raise(s, invalid)
    ELSE IF s.m[i].instruction_set = None THEN Raise(s, "InstructionNotInInstructionSet")
    ELSE Only({IF r.exc # "none" THEN r ELSE Finish(r.s, i) : r \in {Resolve(s, i)}})

\* Movement.execute
execute(s, i) ==
    IF s.m[i].is_executing THEN Raise(s, "InstructionAlreadyExecuting")
    ELSE IF s.m[i].is_executed THEN Raise(s, "InstructionAlreadyExecuted")
    ELSE Only({Start(s1, i) : s1 \in {SetField(s, i, "is_executing", TRUE)}})

\* ------------------------------------------------------------------------
\* InstructionSet: classification of a movement when it joins the set
\* ------------------------------------------------------------------------
\* A new Movement (Movement.__init__), not yet in any set.
NewMovementRecord(issuer, origin, destination, num_troops) ==
    [kind |-> "Movement", territory |-> None,
     issuer |-> issuer, origin |-> origin, destination |-> destination,
     num_troops |-> num_troops, num_troops_moved |-> 0,
     allow_insufficient_troops |-> FALSE, is_part_of_loop |-> FALSE,
     is_executing |-> FALSE, is_executed |-> FALSE,
     instruction_type |-> "NONE", skirmishing_movements |-> <<>>,
     mutual_invasion |-> None, instruction_set |-> None]

\* set_movement_type with the skirmish branch tagging and linking the new
\* instruction only.
set_movement_type_NewOnly(ms, set, owner, i) ==
    LET m == ms[i]
        rivals == {x \in Range(set) :
                      /\ ms[x].destination = m.destination
                      /\ ms[x].issuer # m.issuer
                      /\ ms[x].issuer # owner[ms[x].destination]}
        instructions_to_same_destination ==
            FilterSeq(set, {x \in Range(set) : ms[x].destination = m.destination}, 1)
        mutual == FilterSeq(set, {x \in Range(set) :
                                    /\ ms[x].issuer = owner[m.destination]
                                    /\ ms[x].destination = m.origin}, 1)
    IN IF m.issuer = owner[m.destination]
       THEN [ms EXCEPT ![i].instruction_type = "DISTRIBUTION"]
       ELSE IF rivals # {}
       THEN [ms EXCEPT ![i].instruction_type = "SKIRMISH",
                       ![i].skirmishing_movements =
                           FilterSeq(instructions_to_same_destination,
                                     Range(instructions_to_same_destination) \ {i}, 1)]
       ELSE IF owner[m.destination] = None
       THEN [ms EXCEPT ![i].instruction_type = "EXPANSION"]
       ELSE IF mutual = <<>>
       THEN [ms EXCEPT ![i].instruction_type = "INVASION"]
       ELSE [ms EXCEPT ![i].instruction_type = "INVASION",
                       ![i].mutual_invasion = mutual[1],
                       ![mutual[1]].mutual_invasion = i]

\* InstructionSet.set_movement_type, for instruction i of the set "set" (which
\* already holds i); ms = the instructions, owner = the territories' owners.
set_movement_type(ms, set, owner, i) ==
    LET m == ms[i]
        rivals == {x \in Range(set) :
                      /\ ms[x].destination = m.destination
                      /\ ms[x].issuer # m.issuer
                      /\ ms[x].issuer # owner[ms[x].destination]}
        instructions_to_same_destination ==
            FilterSeq(set, {x \in Range(set) : ms[x].destination = m.destination}, 1)
        mutual == FilterSeq(set, {x \in Range(set) :
                                    /\ ms[x].issuer = owner[m.destination]
                                    /\ ms[x].destination = m.origin}, 1)
    IN IF m.issuer = owner[m.destination]
       THEN [ms EXCEPT ![i].instruction_type = "DISTRIBUTION"]
       ELSE IF rivals # {}
       THEN [x \in DOMAIN ms |->
                IF x \in Range(instructions_to_same_destination)
                THEN [ms[x] EXCEPT !.instruction_type = "SKIRMISH",
                                   !.skirmishing_movements =
                                       FilterSeq(instructions_to_same_destination,
                                                 Range(instructions_to_same_destination) \ {x}, 1)]
                ELSE ms[x]]
       ELSE IF owner[m.destination] = None
       THEN [ms EXCEPT ![i].instruction_type = "EXPANSION"]
       ELSE IF mutual = <<>>
       THEN [ms EXCEPT ![i].instruction_type = "INVASION"]
       ELSE [ms EXCEPT ![i].instruction_type = "INVASION",
                       ![i].mutual_invasion = mutual[1],
                       ![mutual[1]].mutual_invasion = i]

\* ------------------------------------------------------------------------
\* Actions
\* ------------------------------------------------------------------------
Owners == [t \in DOMAIN territories |-> territories[t].owner]

\* Movement(issuer, origin, destination, num_troops, instruction_set=iset):
\* the constructor registers the movement through InstructionSet.add_instruction.
NewMovement(issuer, origin, destination, num_troops) ==
    /\ Len(instructions) < MaxInstr
    /\ LET i == Len(instructions) + 1
           ms == Append(instructions,
                        [NewMovementRecord(issuer, origin, destination, num_troops)
                            EXCEPT !.instruction_set = 1])
           set == Append(instruction_set, i)
       IN /\ instructions' = set_movement_type(ms, set, Owners, i)
          /\ instruction_set' = set
    /\ UNCHANGED <<territories, boundaries, instruction_sets, turn, validated, calls,
                   finished, penalties, fixture, units,
                   territory_units, unit_call, chains, first_id>>

\* The caller calls instructions[i].execute().
Execute(i) ==
    /\ i \in DOMAIN instructions
    /\ Len(calls) < MaxCalls
    /\ \E r \in {execute([t |-> territories, m |-> instructions, log |-> finished, pen |-> penalties], i)} :
          /\ territories' = r.s.t
          /\ instructions' = r.s.m
          /\ finished' = r.s.log
          /\ penalties' = r.s.pen
          /\ calls' = Append(calls, [id |-> i, exc |-> r.exc])
    /\ UNCHANGED <<boundaries, instruction_set, instruction_sets, turn, validated, fixture, units,
                   territory_units, unit_call, chains, first_id>>

\* ------------------------------------------------------------------------
\* Worlds (test/case.py: generate_territories, generate_troops)
\* ------------------------------------------------------------------------
\* generate_territories(owners=..., complete_graph=True) and generate_troops
World(owners, troops) == [owners |-> owners, troops |-> troops]

\* No Turn has been constructed.
NoTurn == [state |-> "none", exc |-> "none", set |-> 0, pos |-> 0]

\* No call on a unit has been made. The resolver above counts the troops of
\* a territory (territories[t].troops); the units as objects, with their
\* back-references, are the state of the operations of world.py below.
NoCall == [op |-> "none", exc |-> "none"]

\* The process as the caller set it up: the world, and id, the value
\* Instruction.next_id hands out first (1 in a process that has created no
\* instruction before). complete_graph = False links no territories at all.
InitProcess(w, complete_graph, id) ==
    /\ fixture = w
    /\ territories = [t \in 1..Len(w.owners) |->
                        [owner |-> w.owners[t], troops |-> w.troops[t], constructs |-> 0]]
    /\ boundaries = IF complete_graph THEN (1..Len(w.owners)) \X (1..Len(w.owners)) ELSE {}
    /\ instructions = <<>>
    /\ instruction_set = <<>>
    /\ instruction_sets = <<>>
    /\ turn = NoTurn
    /\ validated = <<>>
    /\ calls = <<>>
    /\ finished = <<>>
    /\ penalties = [t \in 1..Len(w.owners) |-> 0]
    /\ units = <<>>
    /\ territory_units = [t \in 1..Len(w.owners) |-> <<>>]
    /\ unit_call = NoCall
    /\ chains = <<>>
    /\ first_id = id

InitGraph(w, complete_graph) == InitProcess(w, complete_graph, 1)

InitWorld(w) == InitGraph(w, TRUE)

\* The worlds of test_mutual_invasion, test_circular_invasions,
\* test_triple_skirmish_with_three_players and
\* test_invasion_can_be_rendered_partial_by_circular_invasions.
ScenarioA == World(<<1, 2>>, <<6, 10>>)
ScenarioB == World(<<1, 2, 3>>, <<5, 20, 20>>)
ScenarioC == World(<<1, 2, 3, 4>>, <<6, 3, 10, 1>>)
ScenarioP == World(<<1, 2, 3>>, <<5, 5, 5>>)

Move(issuer, origin, destination, num_troops) ==
    [issuer |-> issuer, origin |-> origin, destination |-> destination, num_troops |-> num_troops]

\* The movements of those tests.
ScenarioMoves(w) ==
    CASE w = ScenarioA -> {Move(1, 1, 2, 3), Move(2, 2, 1, 3)}
      [] w = ScenarioB -> {Move(1, 1, 2, 4), Move(2, 2, 3, 4), Move(3, 3, 1, 4)}
      [] w = ScenarioC -> {Move(1, 1, 4, 5), Move(2, 2, 4, 2), Move(3, 3, 4, 9)}
      [] w = ScenarioP -> {Move(1, 1, 2, 4), Move(2, 2, 3, 4), Move(3, 3, 1, 4)}

InitScenario == \E w \in {ScenarioA, ScenarioB, ScenarioC, ScenarioP} : InitWorld(w)

\* The caller first builds the InstructionSet and then executes instructions.
NextScenario ==
    \/ \E mv \in ScenarioMoves(fixture) :
          calls = <<>> /\ NewMovement(mv.issuer, mv.origin, mv.destination, mv.num_troops)
    \/ \E i \in 1..MaxInstr : Execute(i)

SpecScenario == InitScenario /\ [][NextScenario]_vars

\* ------------------------------------------------------------------------
\* Two territories and two players, each of whom issues at most one movement,
\* from either territory (owned or not) and for any count: the first territory
\* is player 1's, the second is neutral, player 1's or player 2's.
\* ------------------------------------------------------------------------
DuelPlayers == {1, 2}

DuelWorlds ==
    {World(<<1, o2>>, <<a, b>>) : o2 \in {None} \cup DuelPlayers, a \in 0..MaxTroops, b \in 0..MaxTroops}

Init == \E w \in DuelWorlds : InitWorld(w)

Next ==
    \/ \E p \in DuelPlayers, o \in 1..2, d \in 1..2, n \in 0..MaxNum :
          /\ o # d
          /\ calls = <<>>
          /\ \A j \in DOMAIN instructions : instructions[j].issuer # p
          /\ NewMovement(p, o, d, n)
    \/ \E i \in 1..MaxInstr : Execute(i)

Spec == Init /\ [][Next]_vars

\* ------------------------------------------------------------------------
\* Chains and cycles of invasions: three territories of three players; every
\* movement is issued by its origin's owner and leaves the territory the
\* previous movement enters; no territory sends two armies.
\* ------------------------------------------------------------------------
CycleWorlds ==
    {World(<<1, 2, 3>>, <<a, b, c>>) : a \in 1..MaxTroops, b \in 1..MaxTroops, c \in 1..MaxTroops}

InitCycle == \E w \in CycleWorlds : InitWorld(w)

NextCycle ==
    \/ \E o \in 1..3, d \in 1..3, n \in 1..MaxNum :
          /\ o # d
          /\ calls = <<>>
          /\ instructions # <<>> => instructions[Len(instructions)].destination = o
          /\ \A j \in DOMAIN instructions : instructions[j].origin # o
          /\ NewMovement(territories[o].owner, o, d, n)
    \/ \E i \in 1..MaxInstr : Len(calls) < MaxCycleCalls /\ Execute(i)

SpecCycle == InitCycle /\ [][NextCycle]_vars

\* ------------------------------------------------------------------------
\* Vocabulary of the properties
\* ------------------------------------------------------------------------
MoveOf(j) ==
    Move(instructions[j].issuer, instructions[j].origin,
         instructions[j].destination, instructions[j].num_troops)

\* The set holds exactly the movements of the test of world w, once each.
Built(w) ==
    /\ fixture = w
    /\ Len(instructions) = Cardinality(ScenarioMoves(w))
    /\ {MoveOf(j) : j \in DOMAIN instructions} = ScenarioMoves(w)

\* The caller has made one execute call, on the movement that leaves territory o.
ExecutedAlone(o) ==
    /\ Len(calls) = 1
    /\ instructions[calls[1].id].origin = o

AllExecuted == \A j \in DOMAIN instructions : instructions[j].is_executed

\* The instruction that leaves territory o (the chains and scenarios have one).
From(o) == CHOOSE j \in DOMAIN instructions : instructions[j].origin = o

\* ------------------------------------------------------------------------
\* C1. Scenario B: t1=5, t2=20, t3=20 of three players, i1: t1->t2 (4),
\* i2: t2->t3 (4), i3: t3->t1 (4) in one set.  Executing i1 alone returns
\* normally with all three executed, t1 holding 1 troop of i3's issuer, and
\* t2 and t3 holding 14 troops each.
\* ------------------------------------------------------------------------
C1_ScenarioB ==
    (Built(ScenarioB) /\ ExecutedAlone(1)) =>
        /\ calls[1].exc = "none"
        /\ AllExecuted
        /\ territories[1].troops = 1
        /\ territories[1].owner = instructions[From(3)].issuer
        /\ territories[2].troops = 14
        /\ territories[3].troops = 14

C1_Witness == Built(ScenarioB) /\ ExecutedAlone(1) /\ AllExecuted

C9_ScenarioC ==
    (Built(ScenarioC) /\ ExecutedAlone(3)) =>
        /\ calls[1].exc = "none"
        /\ AllExecuted
        /\ territories[1].troops = 1
        /\ territories[2].troops = 1
        /\ territories[3].troops = 1
        /\ territories[4].troops = 1
        /\ territories[4].owner = instructions[From(3)].issuer

C9_Witness == Built(ScenarioC) /\ ExecutedAlone(3) /\ AllExecuted

\* ------------------------------------------------------------------------
\* Cycles
\* ------------------------------------------------------------------------
\* The state handed to Movement.execute by the caller.
Cur == [t |-> territories, m |-> instructions, log |-> finished, pen |-> penalties]

\* The set is a circular chain of invasions: every destination is the origin
\* of the next instruction and the last destination is the first origin.
IsCycle ==
    /\ Len(instructions) >= 2
    /\ \A j \in 1..(Len(instructions) - 1) :
          instructions[j].destination = instructions[j + 1].origin
    /\ instructions[Len(instructions)].destination = instructions[1].origin
    /\ \A j \in DOMAIN instructions : instructions[j].instruction_type = "INVASION"

\* The instruction of the cycle with the lowest origin id.
Lowest == From(SetMin({instructions[j].origin : j \in DOMAIN instructions}))

\* The caller's first execute call is being made in this step.
FirstCall == calls = <<>> /\ Len(calls') = 1

\* ------------------------------------------------------------------------
\* C2. For any circular chain of invasions in one set, executing any single
\* instruction of the cycle returns without error, leaves every instruction
\* executed, removes each origin's penalty exactly once and never moves more
\* troops than requested, and ends with the troop counts and owners that
\* executing the lowest-origin instruction yields.
\* ------------------------------------------------------------------------
C2_AnyInstructionOfCycle ==
    [][(IsCycle /\ FirstCall) =>
          /\ calls'[1].exc = "none"
          /\ AllExecuted'
          /\ \A j \in DOMAIN instructions :
                /\ penalties'[instructions[j].origin] = NUM_INVASION_PENALTY
                /\ instructions'[j].num_troops_moved <= instructions[j].num_troops
          /\ territories' = execute(Cur, Lowest).s.t]_vars

\* ------------------------------------------------------------------------
\* C3. Tie-break: in any cycle of invasions in one set, whichever instruction
\* the caller executes first, the first instruction that call brings to
\* Executed (the head of the order in which instructions were marked
\* executed) is the one whose origin has the lowest territory id.
\* ------------------------------------------------------------------------
C3_LowestOriginFirst ==
    (IsCycle /\ Len(calls) = 1 /\ finished # <<>>) => finished[1] = Lowest

C3_Witness ==
    /\ IsCycle
    /\ Len(instructions) = 3
    /\ Len(calls) = 1
    /\ calls[1].id # Lowest
    /\ Len(finished) >= 2
    /\ finished[1] = Lowest

\* ------------------------------------------------------------------------
\* C4. For any cycle of invasions in one set whose instructions are all valid
\* before execution, executing the lowest-origin instruction raises no error
\* and leaves every instruction of the cycle executed.
\* ------------------------------------------------------------------------
C4_ValidCycleCompletes ==
    [][(/\ IsCycle
        /\ FirstCall
        /\ \A j \in DOMAIN instructions : assert_is_valid(Cur, j) = "none"
        /\ calls'[1].id = Lowest) =>
          (calls'[1].exc = "none" /\ AllExecuted')]_vars

\* ------------------------------------------------------------------------
\* Single calls
\* ------------------------------------------------------------------------
\* The caller makes an execute call in this step, on instruction CalledId;
\* CalledExc is the exception the call raised, or "none".
Called == Len(calls') = Len(calls) + 1
CalledId == calls'[Len(calls')].id
CalledExc == calls'[Len(calls')].exc

\* i1: A->B by A's owner and i2: B->A by B's owner, linked as each other's
\* mutual invasion, are the set.
IsMutualInvasion ==
    /\ Len(instructions) = 2
    /\ \A j \in 1..2 :
          /\ instructions[j].instruction_type = "INVASION"
          /\ instructions[j].mutual_invasion = 3 - j

Min(a, b) == IF a <= b THEN a ELSE b
Max(a, b) == IF a >= b THEN a ELSE b

C7_InvasionAccounting ==
    [][(/\ Len(instructions) = 1
        /\ instructions[1].instruction_type = "INVASION"
        /\ assert_is_valid(Cur, 1) = "none"
        /\ FirstCall) =>
          LET m == instructions[1]
              O == territories[m.origin].troops
              D == territories[m.destination].troops
              R == m.num_troops
              P == NUM_INVASION_PENALTY
              traded == Min(Max(R - P, 0), D)
              losses == Min(R, P + traded)
              left == R - losses
          IN /\ CalledExc = "none"
             /\ territories'[m.origin].troops = O - R
             /\ left > 0 =>
                   /\ territories'[m.destination].troops = left
                   /\ territories'[m.destination].owner = m.issuer
             /\ left = 0 =>
                   /\ territories'[m.destination].troops = Max(D - traded, 0)
                   /\ territories'[m.destination].troops = 0 =>
                         territories'[m.destination].owner = None]_vars

\* ------------------------------------------------------------------------
\* C8. Conservation: a call that resolves a valid movement as an expansion
\* or a distribution (destination neutral or the issuer's) leaves the sum of
\* the troops in origin and destination unchanged, the destination gaining
\* what the origin loses, and the destination ends owned by the issuer.
\* ------------------------------------------------------------------------
C8_Conservation ==
    [][(/\ Called
        /\ instructions[CalledId].instruction_type \in {"EXPANSION", "DISTRIBUTION"}
        /\ ~instructions[CalledId].is_executing
        /\ ~instructions[CalledId].is_executed
        /\ assert_is_valid(Cur, CalledId) = "none"
        /\ territories[instructions[CalledId].destination].owner
              \in {None, instructions[CalledId].issuer}) =>
          LET m == instructions[CalledId] IN
          /\ territories'[m.origin].troops + territories'[m.destination].troops
                = territories[m.origin].troops + territories[m.destination].troops
          /\ territories[m.origin].troops - territories'[m.origin].troops
                = instructions'[CalledId].num_troops_moved
          /\ territories'[m.destination].owner = m.issuer]_vars

C8_Witness ==
    /\ Len(calls) = 1
    /\ calls[1].exc = "none"
    /\ instructions[calls[1].id].instruction_type = "EXPANSION"
    /\ instructions[calls[1].id].is_executed
    /\ instructions[calls[1].id].num_troops_moved >= 2
    /\ fixture.owners[instructions[calls[1].id].destination] = None
    /\ territories[instructions[calls[1].id].destination].owner = instructions[calls[1].id].issuer

\* ------------------------------------------------------------------------
\* C10. Idempotence: a call to execute on a movement that is already
\* executed raises InstructionAlreadyExecuted and changes no territory and
\* no instruction.
\* ------------------------------------------------------------------------
C10_Idempotence ==
    [][(Called /\ instructions[CalledId].is_executed) =>
          /\ CalledExc = "InstructionAlreadyExecuted"
          /\ territories' = territories
          /\ instructions' = instructions]_vars

\* ------------------------------------------------------------------------
\* C11. Whenever Movement.execute raises a validation error
\* (IssuerDoesNotOwnTerritory, InsufficientUnitsException or
\* TargetTerritoryNotAdjacent), no territory has changed: every troop count
\* and every owner is what it was before the call.
\* ------------------------------------------------------------------------
ValidationErrors ==
    {"IssuerDoesNotOwnTerritory", "InsufficientUnitsException", "TargetTerritoryNotAdjacent"}

C11_ValidationBeforeMutation ==
    [][(Called /\ CalledExc \in ValidationErrors) => territories' = territories]_vars

\* ------------------------------------------------------------------------
\* Validation on its own: movements outside any InstructionSet, in worlds
\* with and without boundaries
\* ------------------------------------------------------------------------
\* Instruction.__init__ without instruction_set: the instruction joins no set.
NewInstruction(rec) ==
    /\ turn.state = "none"
    /\ Len(instructions) < MaxInstr
    /\ instructions' = Append(instructions, rec)
    /\ UNCHANGED <<territories, boundaries, instruction_set, instruction_sets, turn,
                   validated, calls, finished, penalties, fixture, units,
                   territory_units, unit_call, chains, first_id>>

\* Movement.allow_insufficient_troops(value)
AllowInsufficientTroops(i, value) ==
    /\ i \in DOMAIN instructions
    /\ instructions[i].kind = "Movement"
    /\ instructions[i].allow_insufficient_troops # value
    /\ instructions' = [instructions EXCEPT ![i].allow_insufficient_troops = value]
    /\ UNCHANGED <<territories, boundaries, instruction_set, instruction_sets, turn,
                   validated, calls, finished, penalties, fixture, units,
                   territory_units, unit_call, chains, first_id>>

\* The caller calls instructions[i].assert_is_valid().
Validate(i) ==
    /\ i \in DOMAIN instructions
    /\ instructions[i].kind = "Movement"
    /\ Len(validated) < MaxCalls
    /\ validated' = Append(validated, [id |-> i, exc |-> assert_is_valid(Cur, i)])
    /\ UNCHANGED <<territories, boundaries, instructions, instruction_set, instruction_sets,
                   turn, calls, finished, penalties, fixture, units,
                   territory_units, unit_call, chains, first_id>>

ValidateWorlds ==
    {World(<<o1, o2>>, <<a, b>>) : o1 \in {None, 1, 2}, o2 \in {None, 1}, a \in 0..MaxTroops, b \in {0}}

InitValidate == \E w \in ValidateWorlds, complete_graph \in BOOLEAN : InitGraph(w, complete_graph)

NextValidate ==
    \/ \E p \in {1, 2}, o \in 1..2, d \in 1..2, n \in 0..MaxNum :
          /\ instructions = <<>>
          /\ NewInstruction(NewMovementRecord(p, o, d, n))
    \/ \E i \in DOMAIN instructions, value \in BOOLEAN : AllowInsufficientTroops(i, value)
    \/ \E i \in DOMAIN instructions : Validate(i)

SpecValidate == InitValidate /\ [][NextValidate]_vars

\* ------------------------------------------------------------------------
\* C12. Movement.assert_is_valid raises exactly when the issuer is not the
\* origin's owner, or more troops are requested than the origin holds while
\* partial execution is not allowed, or the destination is not adjacent to
\* the origin; what it raises is one of the three validation errors.
\* Requesting every troop of the origin is valid, and so is a shortfall
\* when partial execution is allowed.
\* ------------------------------------------------------------------------
Validated == Len(validated') = Len(validated) + 1

NUM_TROOPS_START == 5

\* CreateHeadquarter.__init__
NewCreateHeadquarterRecord(issuer, territory) ==
    [NewMovementRecord(issuer, None, None, 0)
        EXCEPT !.kind = "CreateHeadquarter", !.territory = territory,
               !.instruction_type = "CREATE_HEADQUARTER"]

\* SpawnTroops.__init__
NewSpawnTroopsRecord(issuer, territory, num_troops) ==
    [NewMovementRecord(issuer, None, None, num_troops)
        EXCEPT !.kind = "SpawnTroops", !.territory = territory]

\* The player whose name is 'Barbarian' (no player of the worlds above).
Barbarian == 4

\* CreateHeadquarter.assert_is_valid as it would be if it did not look at the
\* adjacent territories.
CreateHeadquarterValidity_IgnoreNeighbours(s, i) ==
    LET c == s.m[i]
    IN IF ~is_neutral(s, c.territory) THEN {"TerritoryNotNeutral"}
       ELSE IF \E t \in DOMAIN s.t : s.t[t].owner = c.issuer THEN {"IssuerAlreadyPresentInWorld"}
       ELSE {"none"}

\* CreateHeadquarter.assert_is_valid: the exceptions it can raise, or "none".
\* The adjacent territories are looked at in the order of a set: the first
\* one that is not empty and not the Barbarian's decides, AttributeError
\* (owner.name of None) when it is neutral.
CreateHeadquarterValidity(s, i) ==
    LET c == s.m[i]
        occupied == {t \in adjacent_territories(c.territory) :
                        ~is_empty(s, t) /\ s.t[t].owner # Barbarian}
    IN IF ~is_neutral(s, c.territory) THEN {"TerritoryNotNeutral"}
       ELSE IF \E t \in DOMAIN s.t : s.t[t].owner = c.issuer THEN {"IssuerAlreadyPresentInWorld"}
       ELSE IF occupied = {} THEN {"none"}
       ELSE {IF is_neutral(s, t) THEN "AttributeError" ELSE "AdjacentTerritoryNotEmpty" :
                t \in occupied}

\* SpawnTroops.assert_is_valid: Player.owned_territories is a method, and the
\* membership test on it raises TypeError before anything else is looked at.
SpawnTroopsValidity(s, i) == {"TypeError"}

\* Instruction.assert_is_valid, by class
Validity(s, i) ==
    IF s.m[i].kind = "Movement" THEN {assert_is_valid(s, i)}
    ELSE IF s.m[i].kind = "CreateHeadquarter" THEN CreateHeadquarterValidity(s, i)
    ELSE SpawnTroopsValidity(s, i)

\* CreateHeadquarter.execute
create_headquarter_execute(s, i) ==
    LET t == s.m[i].territory IN
    Ok([s EXCEPT !.t[t].owner = s.m[i].issuer,
                 !.t[t].constructs = @ + 1,
                 !.t[t].troops = @ + NUM_TROOPS_START,
                 !.m[i].is_executed = TRUE,
                 !.log = Append(@, i)])

\* SpawnTroops.execute
spawn_troops_execute(s, i) ==
    Ok([s EXCEPT !.t[s.m[i].territory].troops = @ + s.m[i].num_troops,
                 !.m[i].is_executed = TRUE,
                 !.log = Append(@, i)])

\* Instruction.execute, by class
InstructionExecute(s, i) ==
    IF s.m[i].kind = "Movement" THEN execute(s, i)
    ELSE IF s.m[i].kind = "CreateHeadquarter" THEN create_headquarter_execute(s, i)
    ELSE spawn_troops_execute(s, i)

\* ------------------------------------------------------------------------
\* Turn: the instructions are sorted into InstructionSets, phase by phase.
\* A Turn under construction is b = [m |-> instructions, sets |-> the
\* InstructionSets so far, exc |-> exception or "none"].
\* ------------------------------------------------------------------------
\* Phase as it would be if GENERATION came before NATURAL.
Phase_GenerationFirst ==
    <<"GENERATION", "NATURAL", "CONSTRUCTION", "MOVEMENT", "BATTLE", "FINAL">>

\* Phase, in the order of its values
Phase == <<"NATURAL", "GENERATION", "CONSTRUCTION", "MOVEMENT", "BATTLE", "FINAL">>

\* Turn.__init__, line 69: the instructions as a set. Its iteration order
\* follows the hash of the instructions, which for movements is their id;
\* the order of creation of the instructions stands for every order.
AsSet(ms) == [k \in 1..Len(ms) |-> k]

\* the instructions of "list" that are in no InstructionSet yet
Unassigned(ms, list) == FilterSeq(list, {x \in DOMAIN ms : ms[x].instruction_set = None}, 1)

\* InstructionSet.movements
Movements(ms, list) == FilterSeq(list, {x \in DOMAIN ms : ms[x].kind = "Movement"}, 1)

\* InstructionSet.__post_init__ from position k of the list on; ref = the set
RECURSIVE post_init(_, _, _, _, _)
post_init(ms, list, ref, owner, k) ==
    IF k > Len(list) THEN ms
    ELSE Only({post_init(IF ms1[list[k]].kind = "Movement"
                         THEN set_movement_type(ms1, Movements(ms1, list), owner, list[k])
                         ELSE ms1,
                         list, ref, owner, k + 1) :
                 ms1 \in {[ms EXCEPT ![list[k]].instruction_set = ref]}})

\* self.instruction_sets[phase].append(InstructionSet(instructions=list))
NewInstructionSet(b, phase, list, owner) ==
    [b EXCEPT !.m = post_init(b.m, list, Len(b.sets) + 2, owner, 1),
              !.sets = Append(@, [phase |-> phase, instructions |-> list])]

\* Turn.register, MOVEMENT: the movements that go into the MOVEMENT phase
IsDistribution(ms, owner, i) ==
    /\ ms[i].kind = "Movement"
    /\ \/ owner[ms[i].origin] = None
       \/ owner[ms[i].destination] = None
       \/ ms[i].issuer = owner[ms[i].origin] /\ owner[ms[i].origin] = owner[ms[i].destination]

\* BattlePass as it would be if every instruction were placed at once.
RECURSIVE BattlePass_PlaceAll(_, _, _, _, _, _, _)
BattlePass_PlaceAll(ms, list, set, later, ref, owner, k) ==
    IF k > Len(list) THEN [m |-> ms, set |-> set]
    ELSE Only({
        BattlePass_PlaceAll(set_movement_type([ms1 EXCEPT ![list[k]].instruction_set = ref],
                                              Append(set, list[k]), owner, list[k]),
                            list, Append(set, list[k]), later, ref, owner, k + 1) :
        ms1 \in {IF later THEN [ms EXCEPT ![list[k]].allow_insufficient_troops = TRUE] ELSE ms}})

\* BattlePass as it would be if an instruction of any issuer that ends at
\* the origin held an instruction back.
RECURSIVE BattlePass_AnyIssuer(_, _, _, _, _, _, _)
BattlePass_AnyIssuer(ms, list, set, later, ref, owner, k) ==
    IF k > Len(list) THEN [m |-> ms, set |-> set]
    ELSE Only({
        IF \E x \in Range(list) : ms1[x].destination = ms1[list[k]].origin
        THEN BattlePass_AnyIssuer(ms1, list, set, later, ref, owner, k + 1)
        ELSE BattlePass_AnyIssuer(set_movement_type([ms1 EXCEPT ![list[k]].instruction_set = ref],
                                                    Append(set, list[k]), owner, list[k]),
                                  list, Append(set, list[k]), later, ref, owner, k + 1) :
        ms1 \in {IF later THEN [ms EXCEPT ![list[k]].allow_insufficient_troops = TRUE] ELSE ms}})

\* Turn.register_battle_phase, lines 111-125: one pass over the unassigned
\* instructions "list", from position k on; "set" is the pass's InstructionSet
\* so far, ref its reference, later = a BATTLE set exists already.
RECURSIVE BattlePass(_, _, _, _, _, _, _)
BattlePass(ms, list, set, later, ref, owner, k) ==
    IF k > Len(list) THEN [m |-> ms, set |-> set]
    ELSE Only({
        IF \E x \in Range(list) : /\ ms1[x].issuer = ms1[list[k]].issuer
                                  /\ ms1[x].destination = ms1[list[k]].origin
        THEN BattlePass(ms1, list, set, later, ref, owner, k + 1)
        ELSE BattlePass(set_movement_type([ms1 EXCEPT ![list[k]].instruction_set = ref],
                                          Append(set, list[k]), owner, list[k]),
                        list, Append(set, list[k]), later, ref, owner, k + 1) :
        ms1 \in {IF later THEN [ms EXCEPT ![list[k]].allow_insufficient_troops = TRUE] ELSE ms}})

\* register_battle_phase as it would be if no pass marked its instructions.
RECURSIVE register_battle_phase_NoMark(_, _, _)
register_battle_phase_NoMark(b, list, owner) ==
    LET unassigned == Unassigned(b.m, list) IN
    IF unassigned = <<>> THEN b
    ELSE Only({
        IF r.set = <<>>
        THEN [b EXCEPT !.m = r.m, !.exc = "InstructionSetNotConstructible"]
        ELSE register_battle_phase_NoMark(
                [b EXCEPT !.m = r.m,
                          !.sets = Append(@, [phase |-> "BATTLE", instructions |-> r.set])],
                unassigned, owner) :
        r \in {BattlePass(b.m, unassigned, <<>>, FALSE, Len(b.sets) + 2, owner, 1)}})

\* Turn.register_battle_phase: passes until every instruction is assigned
RECURSIVE register_battle_phase(_, _, _)
register_battle_phase(b, list, owner) ==
    LET unassigned == Unassigned(b.m, list) IN
    IF unassigned = <<>> THEN b
    ELSE Only({
        IF r.set = <<>>
        THEN [b EXCEPT !.m = r.m, !.exc = "InstructionSetNotConstructible"]
        ELSE register_battle_phase(
                [b EXCEPT !.m = r.m,
                          !.sets = Append(@, [phase |-> "BATTLE", instructions |-> r.set])],
                unassigned, owner) :
        r \in {BattlePass(b.m, unassigned, <<>>,
                          \E k \in DOMAIN b.sets : b.sets[k].phase = "BATTLE",
                          Len(b.sets) + 2, owner, 1)}})

\* Turn.register(phase, instructions)
register(b, phase, list, owner) ==
    LET of(kind) == FilterSeq(list, {x \in DOMAIN b.m : b.m[x].kind = kind}, 1)
        distributions == FilterSeq(list, {x \in DOMAIN b.m : IsDistribution(b.m, owner, x)}, 1)
    IN IF phase = "NATURAL"
       THEN IF of("CreateHeadquarter") = <<>> THEN b
            ELSE NewInstructionSet(b, phase, of("CreateHeadquarter"), owner)
       ELSE IF phase = "GENERATION"
       THEN IF of("SpawnTroops") = <<>> THEN b
            ELSE NewInstructionSet(b, phase, of("SpawnTroops"), owner)
       ELSE IF phase = "MOVEMENT"
       THEN IF distributions = <<>> THEN b
            ELSE NewInstructionSet(b, phase, distributions, owner)
       ELSE IF phase = "BATTLE"
       THEN register_battle_phase(b, list, owner)
       ELSE b

\* Turn.__init__, lines 71-72: the phases from Phase[p] on
RECURSIVE RegisterPhases(_, _, _, _)
RegisterPhases(b, list, owner, p) ==
    IF p > Len(Phase) \/ b.exc # "none" THEN b
    ELSE Only({RegisterPhases(b1, Unassigned(b1.m, list), owner, p + 1) :
                 b1 \in {register(b, Phase[p], list, owner)}})

\* Turn(instructions)
NewTurnOf(ms, owner) ==
    RegisterPhases([m |-> ms, sets |-> <<>>, exc |-> "none"], AsSet(ms), owner, 1)

\* turn = Turn(every instruction created so far)
NewTurn ==
    /\ turn.state = "none"
    /\ \E b \in {NewTurnOf(instructions, Owners)} :
          /\ instructions' = b.m
          /\ instruction_sets' = b.sets
          /\ turn' = [state |-> IF b.exc = "none" THEN "built" ELSE "raised",
                      exc |-> b.exc, set |-> 1, pos |-> 1]
    /\ UNCHANGED <<territories, boundaries, instruction_set, validated, calls, finished,
                   penalties, fixture, units,
                   territory_units, unit_call, chains, first_id>>

\* Turn.execute, lines 143-151: one instruction of the current set. On
\* InstructionAlreadyExecuted the loop goes on; any other exception leaves
\* Turn.execute.
TurnInstruction ==
    /\ turn.state \in {"built", "running"}
    /\ turn.set <= Len(instruction_sets)
    /\ turn.pos <= Len(instruction_sets[turn.set].instructions)
    /\ LET i == instruction_sets[turn.set].instructions[turn.pos] IN
       \E invalid \in Validity(Cur, i) :
          \E r \in {IF invalid # "none" THEN Raise(Cur, invalid) ELSE InstructionExecute(Cur, i)} :
             /\ territories' = r.s.t
             /\ instructions' = r.s.m
             /\ finished' = r.s.log
             /\ penalties' = r.s.pen
             /\ turn' = IF r.exc \in {"none", "InstructionAlreadyExecuted"}
                        THEN [turn EXCEPT !.state = "running", !.pos = @ + 1]
                        ELSE [turn EXCEPT !.state = "raised", !.exc = r.exc]
    /\ UNCHANGED <<boundaries, instruction_set, instruction_sets, validated, calls, fixture, units,
                   territory_units, unit_call, chains, first_id>>

\* Turn.execute, lines 153-155: after the last instruction of a set
TurnSetDone ==
    /\ turn.state \in {"built", "running"}
    /\ turn.set <= Len(instruction_sets)
    /\ turn.pos > Len(instruction_sets[turn.set].instructions)
    /\ turn' = IF \E i \in Range(instruction_sets[turn.set].instructions) :
                     ~instructions[i].is_executed
               THEN [turn EXCEPT !.state = "raised", !.exc = "InstructionNotExecuted"]
               ELSE [turn EXCEPT !.state = "running", !.set = @ + 1, !.pos = 1]
    /\ UNCHANGED <<territories, boundaries, instructions, instruction_set, instruction_sets,
                   validated, calls, finished, penalties, fixture, units,
                   territory_units, unit_call, chains, first_id>>

\* TurnReturn as it would be if Turn.execute returned from inside its loops.
TurnReturn_Early ==
    /\ turn.state \in {"built", "running"}
    /\ turn' = [turn EXCEPT !.state = "returned"]
    /\ UNCHANGED <<territories, boundaries, instructions, instruction_set, instruction_sets,
                   validated, calls, finished, penalties, fixture, units,
                   territory_units, unit_call, chains, first_id>>

\* Turn.execute, line 157: return self
TurnReturn ==
    /\ turn.state \in {"built", "running"}
    /\ turn.set > Len(instruction_sets)
    /\ turn' = [turn EXCEPT !.state = "returned"]
    /\ UNCHANGED <<territories, boundaries, instructions, instruction_set, instruction_sets,
                   validated, calls, finished, penalties, fixture, units,
                   territory_units, unit_call, chains, first_id>>

\* ------------------------------------------------------------------------
\* Turns over three territories: players 1 and 2 hold t1 and t2, the empty
\* t3 is neutral or player 2's, player 3 holds nothing yet and founds its
\* headquarter in t3. Players 1 and 2 move out of t1 and t2, players 2 and 3
\* out of t3.
\* ------------------------------------------------------------------------
\* what every movement handed to a Turn requests
TurnRequest == MaxNum

TurnWorlds ==
    {w \in {World(<<1, 2, o3>>, <<a, b, 0>>) :
               o3 \in {None, 2},
               a \in {0, MaxTroops, 2 * MaxTroops},
               b \in {0, MaxTroops, 2 * MaxTroops}} :
        w.troops[2] \in {0, w.troops[1]}}

InitTurn == \E w \in TurnWorlds : InitWorld(w)

NextTurn ==
    \/ \E p \in 1..2, o \in 1..2, d \in 1..3 :
          /\ o # d
          /\ NewInstruction(NewMovementRecord(p, o, d, TurnRequest))
    \/ \E p \in 2..3, d \in 1..2 : NewInstruction(NewMovementRecord(p, 3, d, TurnRequest))
    \/ \E p \in {3} : NewInstruction(NewCreateHeadquarterRecord(p, 3))
    \/ \E p \in {1} : NewInstruction(NewSpawnTroopsRecord(p, 1, 3))
    \/ NewTurn
    \/ TurnInstruction
    \/ TurnSetDone
    \/ TurnReturn

SpecTurn == InitTurn /\ [][NextTurn]_vars

\* ------------------------------------------------------------------------
\* C13. Turn.execute resolves the phases in the order NATURAL, GENERATION,
\* CONSTRUCTION, MOVEMENT, BATTLE, FINAL and, within a phase, the
\* InstructionSets in scheduling order: an instruction that has started
\* executing (is executing, is executed or has moved troops) finds every
\* instruction of every earlier phase and of every earlier set executed.
\* ------------------------------------------------------------------------
\* the set of the Turn that holds instruction i, 0 when none does
SetOf(i) ==
    IF \E k \in DOMAIN instruction_sets : i \in Range(instruction_sets[k].instructions)
    THEN CHOOSE k \in DOMAIN instruction_sets : i \in Range(instruction_sets[k].instructions)
    ELSE 0

\* the position of a phase in the order the claim names
PhaseNumber(phase) ==
    LET order == <<"NATURAL", "GENERATION", "CONSTRUCTION", "MOVEMENT", "BATTLE", "FINAL">>
    IN CHOOSE p \in DOMAIN order : order[p] = phase

Started(i) ==
    \/ instructions[i].is_executing
    \/ instructions[i].is_executed
    \/ instructions[i].num_troops_moved > 0

C13_PhasesInOrder ==
    /\ \A k \in DOMAIN instruction_sets : \A l \in DOMAIN instruction_sets :
          k < l => PhaseNumber(instruction_sets[k].phase) <= PhaseNumber(instruction_sets[l].phase)
    /\ turn.state # "none" =>
          \A i \in DOMAIN instructions : \A j \in DOMAIN instructions :
             (Started(i) /\ SetOf(j) # 0 /\ SetOf(j) < SetOf(i)) => instructions[j].is_executed

\* a set of the MOVEMENT phase and two sets of the BATTLE phase were
\* resolved, in that order
C13_Witness ==
    /\ turn.state = "returned"
    /\ Len(instruction_sets) = 3
    /\ instruction_sets[1].phase = "MOVEMENT"
    /\ instruction_sets[2].phase = "BATTLE"
    /\ instruction_sets[3].phase = "BATTLE"
    /\ finished = instruction_sets[1].instructions \o instruction_sets[2].instructions
                     \o instruction_sets[3].instructions

\* ------------------------------------------------------------------------
\* C14. A Turn places in the MOVEMENT phase exactly the movements whose
\* issuer owns both origin and destination when the Turn is created; every
\* other movement, an expansion into a neutral destination and a movement
\* from an origin the issuer does not own included, is placed in BATTLE.
\* ------------------------------------------------------------------------
TurnBuilt == turn.state # "none" /\ turn.exc # "InstructionSetNotConstructible"

PhaseOf(i) == IF SetOf(i) = 0 THEN "NONE" ELSE instruction_sets[SetOf(i)].phase

C14_MovementPhaseIsFriendly ==
    TurnBuilt =>
       \A i \in DOMAIN instructions :
          instructions[i].kind = "Movement" =>
             PhaseOf(i) = IF /\ instructions[i].issuer = fixture.owners[instructions[i].origin]
                             /\ instructions[i].issuer = fixture.owners[instructions[i].destination]
                          THEN "MOVEMENT"
                          ELSE "BATTLE"

\* ------------------------------------------------------------------------
\* Scheduling alone: Turns over four territories, built and not executed.
\* Player 1 holds t1, player 2 holds t2, t3 and t4.
\* ------------------------------------------------------------------------
ScheduleWorlds == {World(<<1, 2, 2, 2>>, <<0, 0, 0, 0>>)}

InitSchedule == \E w \in ScheduleWorlds : InitWorld(w)

NextSchedule ==
    \/ \E o \in 1..4, d \in 1..4 :
          /\ o # d
          /\ NewInstruction(NewMovementRecord(1, o, d, TurnRequest))
    \/ \E o \in 1..2, d \in 1..3 :
          /\ o # d
          /\ NewInstruction(NewMovementRecord(2, o, d, TurnRequest))
    \/ NewTurn

SpecSchedule == InitSchedule /\ [][NextSchedule]_vars

\* ------------------------------------------------------------------------
\* C15. In the BATTLE schedule an instruction is placed in a pass only if no
\* instruction of the same issuer that was still unassigned at the start of
\* that pass has its destination at this instruction's origin: of two
\* battle instructions X and Y of one issuer with X.destination = Y.origin,
\* X lies in a strictly earlier InstructionSet than Y.
\* ------------------------------------------------------------------------
InBattle(i) == PhaseOf(i) = "BATTLE"

FirstBattleSet ==
    SetMin({k \in DOMAIN instruction_sets : instruction_sets[k].phase = "BATTLE"})

C16_LaterSetsPartial ==
    TurnBuilt =>
       \A i \in DOMAIN instructions :
          SetOf(i) # 0 =>
             (instructions[i].allow_insufficient_troops <=>
                 (InBattle(i) /\ SetOf(i) > FirstBattleSet))

\* a Turn with three BATTLE sets: the second and the third are marked, the
\* first is not
C16_Witness ==
    /\ TurnBuilt
    /\ Len(instruction_sets) = 3
    /\ instruction_sets[1].phase = "BATTLE"
    /\ \A i \in Range(instruction_sets[1].instructions) :
          ~instructions[i].allow_insufficient_troops
    /\ \A i \in Range(instruction_sets[2].instructions) \cup Range(instruction_sets[3].instructions) :
          instructions[i].allow_insufficient_troops

\* ------------------------------------------------------------------------
\* C17. When, for every issuer, the graph of that issuer's battle movements
\* (an edge from X to Y when X.destination = Y.origin) has no cycle, the
\* BATTLE scheduling ends with every battle instruction assigned, never
\* raises InstructionSetNotConstructible, and every pass places at least
\* one instruction.
\* ------------------------------------------------------------------------
\* the movements that reach the BATTLE phase
BattleMovements ==
    {i \in DOMAIN instructions : instructions[i].kind = "Movement" /\ PhaseOf(i) # "MOVEMENT"}

Successors(x) ==
    {y \in BattleMovements : /\ instructions[y].issuer = instructions[x].issuer
                             /\ instructions[x].destination = instructions[y].origin}

RECURSIVE ReachFrom(_, _)
ReachFrom(frontier, seen) ==
    LET next == UNION {Successors(x) : x \in frontier} \ seen
    IN IF next = {} THEN seen ELSE ReachFrom(next, seen \cup next)

Cyclic == \E x \in BattleMovements : x \in ReachFrom(Successors(x), Successors(x))

C17_AcyclicSchedules ==
    (turn.state # "none" /\ ~Cyclic) =>
       /\ turn.exc = "none"
       /\ \A i \in BattleMovements : InBattle(i)
       /\ \A k \in DOMAIN instruction_sets : instruction_sets[k].instructions # <<>>

\* two players invade each other and one of them moves on from a third
\* territory: no issuer's graph has a cycle, and the Turn has two BATTLE sets
C17_Witness ==
    /\ TurnBuilt
    /\ ~Cyclic
    /\ Len(instruction_sets) = 2
    /\ instruction_sets[1].phase = "BATTLE"
    /\ \E x \in BattleMovements : \E y \in BattleMovements :
          /\ instructions[x].issuer # instructions[y].issuer
          /\ instructions[x].destination = instructions[y].origin
          /\ instructions[y].destination = instructions[x].origin
    /\ Cardinality(BattleMovements) = MaxInstr

\* ------------------------------------------------------------------------
\* C18. Turn.execute tolerates an instruction that was already executed as
\* a side effect of another instruction of its set: when the loop reaches
\* it, nothing is raised and Turn.execute goes on, in every iteration order
\* and whatever became of the instruction's origin.
\* ------------------------------------------------------------------------
AtInstruction ==
    /\ turn.state \in {"built", "running"}
    /\ turn.set <= Len(instruction_sets)
    /\ turn.pos <= Len(instruction_sets[turn.set].instructions)

Current == instruction_sets[turn.set].instructions[turn.pos]

C18_AlreadyExecutedTolerated ==
    [][(AtInstruction /\ instructions[Current].is_executed) => turn'.state = "running"]_vars

\* ------------------------------------------------------------------------
\* C19. When Turn.execute returns normally, every instruction of every
\* InstructionSet is executed. The loop leaves a set behind only with all
\* its instructions executed; when it raises InstructionNotExecuted, an
\* instruction of the current set is not executed and no instruction of a
\* later set has started.
\* ------------------------------------------------------------------------
AllExecutedIn(k) == \A i \in Range(instruction_sets[k].instructions) : instructions[i].is_executed

ClassifyWorlds == {World(<<1, 2, 3>>, <<0, 0, 0>>), World(<<1, 2, None>>, <<0, 0, 0>>)}

InitClassify == \E w \in ClassifyWorlds : InitWorld(w)

NextClassify ==
    \E p \in 1..3, o \in 1..3, d \in 1..3 :
       /\ o # d
       /\ NewMovement(p, o, d, TurnRequest)

SpecClassify == InitClassify /\ [][NextClassify]_vars

\* ------------------------------------------------------------------------
\* C20. After any sequence of add_instruction calls every movement has
\* exactly one kind, and every movement whose issuer is the owner of its
\* destination is a Distribution: it is not tagged Skirmish and it is in no
\* instruction's list of skirmish peers, whatever was added before or after.
\* ------------------------------------------------------------------------
C20_DistributionStays ==
    \A i \in DOMAIN instructions :
       /\ instructions[i].instruction_type \in {"DISTRIBUTION", "EXPANSION", "INVASION", "SKIRMISH"}
       /\ instructions[i].issuer = territories[instructions[i].destination].owner =>
             /\ instructions[i].instruction_type = "DISTRIBUTION"
             /\ \A j \in DOMAIN instructions : i \notin Range(instructions[j].skirmishing_movements)

\* ------------------------------------------------------------------------
\* C21. After any sequence of add_instruction calls: whenever two or more
\* different players, none of them the owner of the destination, have
\* movements in the set to one destination, all of those movements are
\* tagged Skirmish; the peer lists are symmetric (a is in b's list iff b is
\* in a's), no instruction is in its own list, and every instruction tagged
\* Skirmish has a non-empty list.
\* ------------------------------------------------------------------------
\* The movements of players other than the owner of d that go to d.
Contenders(d) ==
    {i \in DOMAIN instructions :
        /\ instructions[i].destination = d
        /\ instructions[i].issuer # territories[d].owner}

Peers(i) == Range(instructions[i].skirmishing_movements)

C21_SkirmishLinks ==
    /\ \A d \in DOMAIN territories :
          Cardinality({instructions[i].issuer : i \in Contenders(d)}) >= 2 =>
             \A i \in Contenders(d) : instructions[i].instruction_type = "SKIRMISH"
    /\ \A a \in DOMAIN instructions :
          /\ a \notin Peers(a)
          /\ \A b \in DOMAIN instructions : a \in Peers(b) <=> b \in Peers(a)
          /\ instructions[a].instruction_type = "SKIRMISH" => Peers(a) # {}

\* Player 2 invades t1, player 3 joins, player 2 sends a second movement:
\* all three are Skirmish and each lists the other two.
C21_Witness ==
    /\ fixture.owners = <<1, 2, 3>>
    /\ Len(instructions) = 3
    /\ instructions[1].issuer = 2 /\ instructions[2].issuer = 3 /\ instructions[3].issuer = 2
    /\ \A i \in 1..3 : /\ instructions[i].destination = 1
                       /\ instructions[i].instruction_type = "SKIRMISH"
                       /\ Peers(i) = (1..3) \ {i}

\* ------------------------------------------------------------------------
\* C22. After any sequence of add_instruction calls the mutual-invasion
\* links are symmetric and one-to-one: a.mutual_invasion = b iff
\* b.mutual_invasion = a, and no instruction is the mutual-invasion peer of
\* two instructions.
\* ------------------------------------------------------------------------
C22_MutualLinks ==
    \A a \in DOMAIN instructions :
       /\ \A b \in DOMAIN instructions :
             instructions[a].mutual_invasion = b <=> instructions[b].mutual_invasion = a
       /\ Cardinality({b \in DOMAIN instructions : instructions[b].mutual_invasion = a}) <= 1

\* ------------------------------------------------------------------------
\* Units as objects (world.py). w = [units, territory_units]; a result is
\* [w, exc, result, shape]: result lists the units handed back, shape says
\* whether Python got a list, a single unit or None. take_unit and
\* remove_unit above are the same two methods on troop counts.
\* ------------------------------------------------------------------------
MaxUnits == 3        \* units the caller creates

UnitWorld == [units |-> units, territory_units |-> territory_units]

Returns(w, result, shape) == [w |-> w, exc |-> "none", result |-> result, shape |-> shape]

Throws(w, e) == [w |-> w, exc |-> e, result |-> <<>>, shape |-> "None"]

\* list[:amount]
Slice(list, amount) ==
    IF amount >= 0
    THEN SubSeq(list, 1, IF amount < Len(list) THEN amount ELSE Len(list))
    ELSE SubSeq(list, 1, IF Len(list) + amount > 0 THEN Len(list) + amount ELSE 0)

\* Territory.all(cls)
all(w, t, cls) ==
    FilterSeq(w.territory_units[t], {u \in DOMAIN w.units : w.units[u].cls = cls}, 1)

\* list.remove(u) on Territory.units of t: the first occurrence goes.
ListRemove(w, t, u) ==
    [w EXCEPT !.territory_units[t] = FilterSeq(@, Range(@) \ {u}, 1)]

\* Unit.move(territory): list.remove raises ValueError when the unit is not
\* in the list of the territory it points at.
move(w, u, t) ==
    LET from == w.units[u].territory
        left == IF from = None THEN w ELSE ListRemove(w, from, u)
    IN IF from # None /\ u \notin Range(w.territory_units[from])
       THEN Throws(w, "ValueError")
       ELSE Returns([left EXCEPT !.units[u].territory = t,
                                 !.territory_units[t] = Append(@, u)], <<>>, "None")

\* Unit.remove()
remove(w, u) ==
    LET from == w.units[u].territory IN
    IF from = None THEN Returns(w, <<>>, "None")
    ELSE IF u \notin Range(w.territory_units[from]) THEN Throws(w, "ValueError")
    ELSE Returns(ListRemove(w, from, u), <<>>, "None")

\* Territory.take_unit(cls, amount, allow_insufficient_amount)
Territory_take_unit(w, t, cls, amount, allow_insufficient_amount) ==
    LET available == all(w, t, cls) IN
    IF amount < 0 THEN Throws(w, "ValueError")
    ELSE IF amount = 0 THEN Returns(w, <<>>, "list")
    ELSE IF amount > Len(available) /\ ~allow_insufficient_amount
    THEN Throws(w, "InsufficientUnitsException")
    ELSE IF amount > Len(available) /\ available = <<>>
    THEN Returns(w, <<>>, "None")
    ELSE LET n == IF amount > Len(available) THEN Len(available) ELSE amount
         IN IF n > 1 THEN Returns(w, Slice(available, n), "list")
            ELSE Returns(w, <<available[1]>>, "unit")

\* Territory.remove_unit, lines 120-121: self.units.remove(unit) for each
RECURSIVE RemoveEach(_, _, _, _)
RemoveEach(w, t, list, k) ==
    IF k > Len(list) THEN w
    ELSE RemoveEach(ListRemove(w, t, list[k]), t, list, k + 1)

\* Territory.remove_unit(cls, amount, allow_insufficient_amount)
Territory_remove_unit(w, t, cls, amount, allow_insufficient_amount) ==
    LET available == all(w, t, cls) IN
    IF amount > Len(available) /\ ~allow_insufficient_amount
    THEN Throws(w, "InsufficientUnitsException")
    ELSE LET n == IF amount > Len(available) THEN Len(available) ELSE amount
         IN Returns(RemoveEach(w, t, Slice(available, n), 1), <<>>, "None")

\* The caller's call, its arguments, its outcome and Territory.units as they
\* were before it.
UnitCalled(op, t, cls, amount, allow, r) ==
    /\ units' = r.w.units
    /\ territory_units' = r.w.territory_units
    /\ unit_call' = [op |-> op, territory |-> t, cls |-> cls, amount |-> amount,
                     allow |-> allow, exc |-> r.exc, result |-> r.result,
                     shape |-> r.shape, before |-> territory_units]
    /\ UNCHANGED <<territories, boundaries, instructions, instruction_set, instruction_sets,
                   turn, validated, calls, finished, penalties, fixture, chains, first_id>>

\* cls(territory=t): Unit.__init__
NewUnit(cls, t) ==
    /\ Len(units) < MaxUnits
    /\ LET u == Len(units) + 1
           w == [UnitWorld EXCEPT !.units = Append(@, [cls |-> cls, territory |-> None])]
       IN UnitCalled("Unit", t, cls, 1, FALSE, move(w, u, t))

\* unit.move(t)
UnitMove(u, t) ==
    /\ u \in DOMAIN units
    /\ UnitCalled("move", t, units[u].cls, 1, FALSE, move(UnitWorld, u, t))

\* unit.remove()
UnitRemove(u) ==
    /\ u \in DOMAIN units
    /\ UnitCalled("remove", units[u].territory, units[u].cls, 1, FALSE, remove(UnitWorld, u))

\* territory.take_unit(cls, amount, allow)
TakeUnit(t, cls, amount, allow) ==
    UnitCalled("take_unit", t, cls, amount, allow, Territory_take_unit(UnitWorld, t, cls, amount, allow))

\* territory.remove_unit(cls, amount, allow)
RemoveUnit(t, cls, amount, allow) ==
    UnitCalled("remove_unit", t, cls, amount, allow, Territory_remove_unit(UnitWorld, t, cls, amount, allow))

\* Two territories without owner; the caller creates troops and cavalry in
\* them, moves and removes them, and takes and removes units by amount.
UnitClasses == {"Troop", "Cavalry"}

UnitAmounts == (0 - 1)..(MaxUnits + 1)

UnitWorlds == {World(<<None, None>>, <<0, 0>>)}

InitUnits == \E w \in UnitWorlds : InitWorld(w)

NextUnits ==
    \/ \E cls \in UnitClasses, t \in DOMAIN territories : NewUnit(cls, t)
    \/ \E u \in 1..MaxUnits, t \in DOMAIN territories : UnitMove(u, t)
    \/ \E u \in 1..MaxUnits : UnitRemove(u)
    \/ \E t \in DOMAIN territories, cls \in UnitClasses, amount \in UnitAmounts,
          allow \in BOOLEAN : TakeUnit(t, cls, amount, allow)
    \/ \E t \in DOMAIN territories, cls \in UnitClasses, amount \in UnitAmounts,
          allow \in BOOLEAN : RemoveUnit(t, cls, amount, allow)

SpecUnits == InitUnits /\ [][NextUnits]_vars

\* ------------------------------------------------------------------------
\* C23. Territory.take_unit and Territory.remove_unit reject a negative
\* amount whatever the allow flag, and reject an amount larger than the
\* number of units of the class present unless the flag is set; a rejected
\* call leaves Territory.units unchanged; taking zero units succeeds with an
\* empty result; with the flag set the available units are taken or removed.
\* ------------------------------------------------------------------------
\* The units of the class asked for that the territory held before the call.
Available ==
    FilterSeq(unit_call.before[unit_call.territory],
              {u \in DOMAIN units : units[u].cls = unit_call.cls}, 1)

C23_AmountsChecked ==
    unit_call.op \in {"take_unit", "remove_unit"} =>
       /\ unit_call.amount < 0 => unit_call.exc = "ValueError"
       /\ (unit_call.amount > Len(Available) /\ ~unit_call.allow) =>
             unit_call.exc = "InsufficientUnitsException"
       /\ unit_call.exc # "none" => territory_units = unit_call.before
       /\ (unit_call.op = "take_unit" /\ unit_call.amount = 0) =>
             unit_call.exc = "none" /\ unit_call.result = <<>>
       /\ (unit_call.amount > Len(Available) /\ unit_call.allow) =>
             /\ unit_call.exc = "none"
             /\ unit_call.op = "take_unit" => unit_call.result = Available
             /\ unit_call.op = "remove_unit" =>
                   all(UnitWorld, unit_call.territory, unit_call.cls) = <<>>

\* The same without the rejection of a negative amount by remove_unit.
C23_AllButNegativeRemoval ==
    (unit_call.op = "remove_unit" /\ unit_call.amount < 0) \/ C23_AmountsChecked

\* ------------------------------------------------------------------------
\* C24. An instruction's execution state only moves forward, NotStarted ->
\* Executing -> Executed: from one state of the program to the next no
\* instruction goes from Executing back to NotStarted, none leaves Executed,
\* and none is both Executing and Executed.
\* ------------------------------------------------------------------------
ExecutionState(m) ==
    IF m.is_executing /\ m.is_executed THEN "Both"
    ELSE IF m.is_executed THEN "Executed"
    ELSE IF m.is_executing THEN "Executing"
    ELSE "NotStarted"

C24_ForwardOnly ==
    [][\A i \in DOMAIN instructions :
          /\ ExecutionState(instructions[i]) = "Executing" =>
                ExecutionState(instructions'[i]) # "NotStarted"
          /\ ExecutionState(instructions[i]) = "Executed" =>
                ExecutionState(instructions'[i]) = "Executed"
          /\ ExecutionState(instructions'[i]) # "Both"]_vars

\* ------------------------------------------------------------------------
\* C25. For every unit ever created, in every reachable state: the unit's
\* territory back-reference names a territory T iff the unit is in T's
\* units, also after Unit.move, Unit.remove and Territory.remove_unit, and
\* the unit is in the units of at most one territory.
\* ------------------------------------------------------------------------
C25_BackReference ==
    \A u \in DOMAIN units :
       /\ \A t \in DOMAIN territory_units :
             units[u].territory = t <=> u \in Range(territory_units[t])
       /\ Cardinality({t \in DOMAIN territory_units : u \in Range(territory_units[t])}) <= 1

\* The same for the units that were never removed: each is in the units of
\* the territory it points at, once, and in no other.
C25_LiveUnits ==
    \A u \in DOMAIN units :
       \A t \in DOMAIN territory_units :
          u \in Range(territory_units[t]) =>
             /\ units[u].territory = t
             /\ Len(FilterSeq(territory_units[t], {u}, 1)) = 1

\* ------------------------------------------------------------------------
\* MovementChain, and a Turn built from chains
\* ------------------------------------------------------------------------
\* A set of up to four elements lives in a hash table of eight slots; the
\* hash of a Movement is its id (Movement.__hash__).
SetTableSize == 8

\* The slot of instruction i when the first instruction got the id "id".
Slot(i, id) == (id + i - 1) % SetTableSize

\* Iteration over a set of instructions: by slot. (Instructions of one Turn
\* of the model never share a slot.)
RECURSIVE SetOrder(_, _)
SetOrder(S, id) ==
    IF S = {} THEN <<>>
    ELSE LET x == CHOOSE x \in S : \A y \in S : Slot(x, id) < Slot(y, id) \/ (Slot(x, id) = Slot(y, id) /\ x <= y)
         IN <<x>> \o SetOrder(S \ {x}, id)

\* MovementChain.assert_is_valid as it would be if it tested nothing.
RECURSIVE chain_assert_is_valid_Nothing(_, _, _)
chain_assert_is_valid_Nothing(ms, chain, index) == "none"

\* MovementChain.assert_is_valid, from position index of the chain on: the
\* exception it raises, or "none". The bare raise of line 310 is a
\* RuntimeError.
RECURSIVE chain_assert_is_valid(_, _, _)
chain_assert_is_valid(ms, chain, index) ==
    IF index > Len(chain) THEN "none"
    ELSE IF ms[chain[index]].origin # ms[chain[index - 1]].destination
    THEN "MovementsNotChained"
    ELSE IF ms[chain[index]].issuer # ms[chain[index - 1]].issuer
    THEN "RuntimeError"
    ELSE chain_assert_is_valid(ms, chain, index + 1)

\* Turn.__init__, lines 60-64: the chains are validated one after the other
\* in the order of the list; the first exception leaves the constructor.
RECURSIVE ValidateChains(_, _, _)
ValidateChains(ms, cs, k) ==
    IF k > Len(cs) THEN "none"
    ELSE Only({IF invalid # "none" THEN invalid ELSE ValidateChains(ms, cs, k + 1) :
                 invalid \in {chain_assert_is_valid(ms, cs[k], 2)}})

\* Turn.__init__, lines 64 and 67: the movements of the chains, as a set
Unrolled(cs) == UNION {Range(cs[k]) : k \in DOMAIN cs}

\* Turn(chains)
NewTurnOfChains(ms, cs, owner, id) ==
    Only({IF invalid # "none"
          THEN [m |-> ms, sets |-> <<>>, exc |-> invalid]
          ELSE RegisterPhases([m |-> ms, sets |-> <<>>, exc |-> "none"],
                              SetOrder(Unrolled(cs), id), owner, 1) :
            invalid \in {ValidateChains(ms, cs, 1)}})

\* MovementChain(issuer, world, origin_num_destinations): one Movement per
\* entry <<origin, num_troops, destination>>, in no InstructionSet.
NewMovementChain(issuer, origin_num_destinations) ==
    /\ turn.state = "none"
    /\ Len(instructions) + Len(origin_num_destinations) <= MaxInstr
    /\ instructions' = instructions \o
          [k \in 1..Len(origin_num_destinations) |->
              NewMovementRecord(issuer, origin_num_destinations[k][1],
                                origin_num_destinations[k][3], origin_num_destinations[k][2])]
    /\ chains' = Append(chains, [k \in 1..Len(origin_num_destinations) |-> Len(instructions) + k])
    /\ UNCHANGED <<territories, boundaries, instruction_set, instruction_sets, turn, validated,
                   calls, finished, penalties, fixture, units, territory_units, unit_call,
                   first_id>>

\* turn = Turn(every chain created so far)
NewChainTurn ==
    /\ turn.state = "none"
    /\ chains # <<>>
    /\ \E b \in {NewTurnOfChains(instructions, chains, Owners, first_id)} :
          /\ instructions' = b.m
          /\ instruction_sets' = b.sets
          /\ turn' = [state |-> IF b.exc = "none" THEN "built" ELSE "raised",
                      exc |-> b.exc, set |-> 1, pos |-> 1]
    /\ UNCHANGED <<territories, boundaries, instruction_set, validated, calls, finished,
                   penalties, fixture, units, territory_units, unit_call, chains, first_id>>

\* Player 1 holds t1 with troops and the empty t2 (or player 2 holds t2);
\* t3 is neutral. Player 1 builds chains of any links, contiguous or not;
\* the process has created no instruction before, or six.
ChainWorlds ==
    {World(<<1, 1, None>>, <<MaxTroops, 0, 0>>), World(<<1, 2, None>>, <<MaxTroops, 0, 0>>)}

ChainLinks == {<<o, TurnRequest, d>> : o \in 1..3, d \in 1..3} \ {<<t, TurnRequest, t>> : t \in 1..3}

FirstIds == {1, SetTableSize - 1}

InitChain == \E w \in ChainWorlds, id \in FirstIds : InitProcess(w, TRUE, id)

NextChain ==
    \/ \E n \in 1..MaxInstr : \E links \in [1..n -> ChainLinks] : NewMovementChain(1, links)
    \/ NewChainTurn
    \/ TurnInstruction
    \/ TurnSetDone
    \/ TurnReturn

SpecChain == InitChain /\ [][NextChain]_vars

\* ------------------------------------------------------------------------
\* C26. A MovementChain given to Turn is validated for contiguity before it
\* is unrolled: if some link's origin differs from the previous link's
\* destination, the constructor raises MovementsNotChained and no movement
\* of any chain is assigned to an InstructionSet; otherwise every movement
\* of every chain is scheduled like any other movement, in one set of the
\* MOVEMENT phase or of the BATTLE phase.
\* ------------------------------------------------------------------------
Chained(c) ==
    \A k \in 2..Len(c) : instructions[c[k]].origin = instructions[c[k - 1]].destination

Constructed ==
    /\ turn.state # "none"
    /\ turn.exc \notin {"MovementsNotChained", "RuntimeError", "InstructionSetNotConstructible"}

C26_ChainsValidatedFirst ==
    turn.state # "none" =>
       IF \E c \in Range(chains) : ~Chained(c)
       THEN /\ turn.state = "raised"
            /\ turn.exc = "MovementsNotChained"
            /\ instruction_sets = <<>>
            /\ \A i \in DOMAIN instructions : instructions[i].instruction_set = None
       ELSE /\ turn.exc \notin {"MovementsNotChained", "RuntimeError"}
            /\ Constructed =>
                  \A i \in Unrolled(chains) :
                     /\ Cardinality({k \in DOMAIN instruction_sets :
                                        i \in Range(instruction_sets[k].instructions)}) = 1
                     /\ \A k \in DOMAIN instruction_sets :
                           i \in Range(instruction_sets[k].instructions) =>
                              /\ instructions[i].instruction_set = k + 1
                              /\ instruction_sets[k].phase =
                                    IF IsDistribution(instructions, fixture.owners, i)
                                    THEN "MOVEMENT" ELSE "BATTLE"

\* A broken chain next to a sound one: the constructor raised and nothing
\* was assigned.
C26_Witness ==
    /\ Len(chains) = 2
    /\ Len(chains[1]) = 1
    /\ Len(chains[2]) = 2
    /\ ~Chained(chains[2])
    /\ turn.exc = "MovementsNotChained"
    /\ instruction_sets = <<>>

\* ------------------------------------------------------------------------
\* C27. For a valid MovementChain A -> B -> C of friendly moves and
\* expansions by one player, where the downstream link needs the troops the
\* upstream link delivers, Turn.execute executes the upstream link before
\* the downstream link and completes without error, whatever the order in
\* which the unrolled movements are iterated.
\* ------------------------------------------------------------------------
\* The caller built the one chain t1 -> t2 -> t3 in the world where player 1
\* holds t1 (with troops) and the empty t2, and t3 is neutral.
ChainOfTest ==
    /\ fixture.owners = <<1, 1, None>>
    /\ Len(chains) = 1
    /\ Len(chains[1]) = 2
    /\ instructions[1].origin = 1 /\ instructions[1].destination = 2
    /\ instructions[2].origin = 2 /\ instructions[2].destination = 3

C27_ChainInOrder ==
    (ChainOfTest /\ turn.state \in {"returned", "raised"}) =>
        /\ turn.state = "returned"
        /\ finished = <<1, 2>>
        /\ territories[1].troops = fixture.troops[1] - instructions[1].num_troops
        /\ territories[2].troops = instructions[1].num_troops - instructions[2].num_troops
        /\ territories[3].troops = instructions[2].num_troops

\* ------------------------------------------------------------------------
\* C28. In any sequence of execute calls on the instructions of a set, calls
\* after a failed validation included, a call of the caller on an instruction
\* (none is being resolved when the caller calls) never raises
\* InstructionAlreadyExecuting or UnwindingLoopedInstructions.
\* ------------------------------------------------------------------------
CycleSignals == {"InstructionAlreadyExecuting", "UnwindingLoopedInstructions"}

C28_SignalsStayInside ==
    [][Called => CalledExc \notin CycleSignals]_vars

\* The same for calls on an instruction whose executing flag is not set.
C28_UnflaggedCalls ==
    [][(Called /\ ~instructions[CalledId].is_executing) => CalledExc \notin CycleSignals]_vars

\* ------------------------------------------------------------------------
\* Instructions of any class, validated and executed by the caller
\* ------------------------------------------------------------------------
\* The caller calls instructions[i].assert_is_valid().
ValidateInstruction(i) ==
    /\ i \in DOMAIN instructions
    /\ Len(validated) < MaxCalls
    /\ \E invalid \in Validity(Cur, i) :
          validated' = Append(validated, [id |-> i, exc |-> invalid])
    /\ UNCHANGED <<territories, boundaries, instructions, instruction_set, instruction_sets,
                   turn, calls, finished, penalties, fixture, units,
                   territory_units, unit_call, chains, first_id>>

\* The caller calls instructions[i].execute().
ExecuteInstruction(i) ==
    /\ i \in DOMAIN instructions
    /\ Len(calls) < MaxCalls
    /\ \E r \in {InstructionExecute(Cur, i)} :
          /\ territories' = r.s.t
          /\ instructions' = r.s.m
          /\ finished' = r.s.log
          /\ penalties' = r.s.pen
          /\ calls' = Append(calls, [id |-> i, exc |-> r.exc])
    /\ UNCHANGED <<boundaries, instruction_set, instruction_sets, turn, validated, fixture,
                   units, territory_units, unit_call, chains, first_id>>

\* Three territories, linked or not; t1 and t2 neutral, player 1's or the
\* Barbarian's, with or without a troop; t3 neutral and empty.
HeadquarterWorlds ==
    {World(<<o1, o2, None>>, <<a, b, 0>>) :
        o1 \in {None, 1, Barbarian}, o2 \in {None, 1, Barbarian}, a \in 0..1, b \in 0..1}

InitHeadquarter ==
    \E w \in HeadquarterWorlds, complete_graph \in BOOLEAN : InitGraph(w, complete_graph)

NextHeadquarter ==
    \/ \E p \in 1..2, t \in 1..3 :
          /\ Len(instructions) < MaxInstr - 2
          /\ NewInstruction(NewCreateHeadquarterRecord(p, t))
    \/ \E i \in 1..MaxInstr : Len(validated) < MaxCalls - 1 /\ ValidateInstruction(i)
    \/ \E i \in 1..MaxInstr : Len(calls) < MaxCalls - 1 /\ ExecuteInstruction(i)

SpecHeadquarter == InitHeadquarter /\ [][NextHeadquarter]_vars

\* ------------------------------------------------------------------------
\* C29. CreateHeadquarter is valid only if the target territory is neutral,
\* the issuer owns no territory of the world and no adjacent territory is
\* non-empty, unless the Barbarian owns it (and it is valid whenever all
\* three hold); executing it makes the issuer the owner of the territory and
\* adds exactly one Headquarter and exactly NUM_TROOPS_START troops to it,
\* and changes no other territory.
\* ------------------------------------------------------------------------
MayFound(i) ==
    LET c == instructions[i] IN
    /\ territories[c.territory].owner = None
    /\ \A t \in DOMAIN territories : territories[t].owner # c.issuer
    /\ \A t \in adjacent_territories(c.territory) :
          \/ territories[t].troops = 0 /\ territories[t].constructs = 0
          \/ territories[t].owner = Barbarian

C29_Headquarter ==
    [][/\ Len(validated') = Len(validated) + 1 =>
             LET v == validated'[Len(validated')] IN
             v.exc = "none" <=> MayFound(v.id)
       /\ Called =>
             LET t == instructions[CalledId].territory IN
             /\ CalledExc = "none"
             /\ territories'[t].owner = instructions[CalledId].issuer
             /\ territories'[t].constructs = territories[t].constructs + 1
             /\ territories'[t].troops = territories[t].troops + NUM_TROOPS_START
             /\ \A x \in DOMAIN territories : x # t => territories'[x] = territories[x]
             /\ instructions'[CalledId].is_executed]_vars

\* A headquarter validated and founded next to a territory the Barbarian
\* holds with a troop.
C29_Witness ==
    /\ Len(validated) = 1 /\ validated[1] = [id |-> 1, exc |-> "none"]
    /\ Len(calls) = 1 /\ calls[1] = [id |-> 1, exc |-> "none"]
    /\ LET t == instructions[1].territory IN
       /\ fixture.owners[t] = None
       /\ territories[t].owner = instructions[1].issuer
       /\ territories[t].constructs = 1
       /\ territories[t].troops = fixture.troops[t] + NUM_TROOPS_START
       /\ \E x \in adjacent_territories(t) :
             territories[x].owner = Barbarian /\ territories[x].troops > 0

\* ------------------------------------------------------------------------
\* SpawnTroops, validated by the caller
\* ------------------------------------------------------------------------
\* Headquarter(territory=t): Construct.__init__ adds it to the territory.
NewHeadquarter(t) ==
    /\ t \in DOMAIN territories
    /\ territories[t].constructs = 0
    /\ instructions = <<>>
    /\ territories' = [territories EXCEPT ![t].constructs = @ + 1]
    /\ UNCHANGED <<boundaries, instructions, instruction_set, instruction_sets, turn,
                   validated, calls, finished, penalties, fixture, units,
                   territory_units, unit_call, chains, first_id>>

\* Two territories, each neutral, player 1's or player 2's (the set-up of
\* SpawnTroopsTest gives both to one player).
SpawnWorlds ==
    {World(<<o1, o2>>, <<0, 0>>) : o1 \in {None, 1, 2}, o2 \in {None, 1, 2}}

InitSpawn == \E w \in SpawnWorlds : InitWorld(w)

NextSpawn ==
    \/ \E t \in 1..2 : NewHeadquarter(t)
    \/ \E p \in 1..2, t \in 1..2 :
          /\ Len(instructions) < MaxInstr - 1
          /\ NewInstruction(NewSpawnTroopsRecord(p, t, 3))
    \/ \E i \in 1..MaxInstr : Len(validated) < MaxCalls - 1 /\ ValidateInstruction(i)

SpecSpawn == InitSpawn /\ [][NextSpawn]_vars

\* ------------------------------------------------------------------------
\* C30. SpawnTroops.assert_is_valid raises IssuerDoesNotOwnTerritory when the
\* issuer does not own the target territory; when the issuer owns a territory
\* with a Headquarter it raises SpawnNotInHeadquarter unless the target has a
\* Headquarter; when the issuer has no Headquarter it raises nothing in any
\* territory the issuer owns.
\* ------------------------------------------------------------------------
SpawnRule(i) ==
    LET c == instructions[i]
        owned == {t \in DOMAIN territories : territories[t].owner = c.issuer}
        territories_with_hq == {t \in owned : territories[t].constructs > 0}
    IN IF c.territory \notin owned THEN "IssuerDoesNotOwnTerritory"
       ELSE IF territories_with_hq = {} THEN "none"
       ELSE IF c.territory \notin territories_with_hq THEN "SpawnNotInHeadquarter"
       ELSE "none"

C30_SpawnValidity ==
    [][Len(validated') = Len(validated) + 1 =>
          LET v == validated'[Len(validated')] IN v.exc = SpawnRule(v.id)]_vars

\* What holds instead: every validation of a SpawnTroops ends in a TypeError.
C30_TypeError ==
    \A k \in DOMAIN validated :
        instructions[validated[k].id].kind = "SpawnTroops" => validated[k].exc = "TypeError"

\* ------------------------------------------------------------------------
\* Instructions that the caller puts into its own InstructionSet and into a
\* Turn
\* ------------------------------------------------------------------------
\* instruction_set.add_instruction(instructions[i]), for an instruction the
\* set does not hold yet (for one it holds the call returns at once).
AddInstruction(i) ==
    /\ i \in DOMAIN instructions
    /\ i \notin Range(instruction_set)
    /\ \E set \in {Append(instruction_set, i)} :
       \E ms \in {[instructions EXCEPT ![i].instruction_set = 1]} :
          /\ instructions' = IF ms[i].kind = "Movement"
                             THEN set_movement_type(ms, Movements(ms, set), Owners, i)
                             ELSE ms
          /\ instruction_set' = set
    /\ UNCHANGED <<territories, boundaries, instruction_sets, turn, validated, calls,
                   finished, penalties, fixture, units,
                   territory_units, unit_call, chains, first_id>>

\* t1 and t2 of players 1 and 2, t3 neutral and empty.
LifetimeWorlds == {World(<<1, 2, None>>, <<MaxTroops, MaxTroops, 0>>)}

InitLifetime == \E w \in LifetimeWorlds : InitWorld(w)

\* Movements of player 1 out of t1 and of player 2 to t1, a headquarter of
\* player 3 in t3.
NextLifetime ==
    \/ \E d \in 2..3 : NewInstruction(NewMovementRecord(1, 1, d, MaxNum))
    \/ \E p \in {2} : NewInstruction(NewMovementRecord(p, 2, 1, MaxNum))
    \/ \E p \in {3} : NewInstruction(NewCreateHeadquarterRecord(p, 3))
    \/ \E i \in 1..MaxInstr : AddInstruction(i)
    \/ NewTurn

SpecLifetime == InitLifetime /\ [][NextLifetime]_vars

\* ------------------------------------------------------------------------
\* C31. Turn construction assigns every input instruction to exactly one
\* InstructionSet, and an instruction that has been given an InstructionSet
\* keeps that same set for its lifetime: no later add_instruction and no
\* later InstructionSet construction moves it to another set.
\* ------------------------------------------------------------------------
\* the InstructionSets (1 = the caller's, k + 1 = the k-th of the Turn) whose
\* list holds instruction i
SetsHolding(i) ==
    {1 : x \in {i} \cap Range(instruction_set)}
        \cup {k + 1 : k \in {x \in DOMAIN instruction_sets :
                                i \in Range(instruction_sets[x].instructions)}}

C31_OneSetForLife ==
    [][/\ turn'.state = "built" =>
             \A i \in DOMAIN instructions' :
                 /\ Cardinality(SetsHolding(i)') = 1
                 /\ instructions'[i].instruction_set \in SetsHolding(i)'
       /\ \A i \in DOMAIN instructions :
             instructions[i].instruction_set # None =>
                 instructions'[i].instruction_set = instructions[i].instruction_set]_vars

\* What holds instead: a Turn built from instructions that were in no set (the
\* Turns of SpecTurn) puts each of them into exactly one of its sets, and
\* executing the Turn moves none.
C31_FreshInstructions ==
    turn.state \in {"built", "running", "returned"} =>
        \A i \in DOMAIN instructions :
            /\ Cardinality(SetsHolding(i)) = 1
            /\ instructions[i].instruction_set \in SetsHolding(i)

\* ------------------------------------------------------------------------
\* C32. Executing an Expansion, a Distribution or an Invasion that is not on
\* a cycle never changes the owner of the instruction's own origin: an origin
\* from which all troops were moved away or lost keeps its owner and is not
\* turned neutral.
\* ------------------------------------------------------------------------
\* the instructions of the caller's set that leave the destination of i
Follows(i) ==
    {j \in Range(instruction_set) : instructions[j].origin = instructions[i].destination}

RECURSIVE Downstream(_, _)
Downstream(frontier, seen) ==
    LET next == UNION {Follows(x) : x \in frontier} \ seen
    IN IF next = {} THEN seen ELSE Downstream(next, seen \cup next)

\* instruction i lies on a cycle of the set: its origin is entered by an
\* instruction that is reached from its destination
OnCycle(i) ==
    \E j \in Downstream(Follows(i), Follows(i)) \cup {i} :
        /\ instructions[j].destination = instructions[i].origin
        /\ j # i \/ instructions[i].origin = instructions[i].destination

C32_OriginKeepsOwner ==
    [][(/\ Called
        /\ instructions[CalledId].instruction_type \in {"EXPANSION", "DISTRIBUTION", "INVASION"}
        /\ ~OnCycle(CalledId)) =>
          territories'[instructions[CalledId].origin].owner
              = territories[instructions[CalledId].origin].owner]_vars

\* An invasion that lost every troop of its origin and left it to its owner.
C32_Witness ==
    /\ Len(calls) = 1
    /\ calls[1].exc = "none"
    /\ LET m == instructions[calls[1].id] IN
       /\ m.instruction_type = "INVASION"
       /\ ~OnCycle(calls[1].id)
       /\ fixture.troops[m.origin] > 0
       /\ territories[m.origin].troops = 0
       /\ territories[m.origin].owner = m.issuer
       /\ fixture.owners[m.origin] = m.issuer

\* ------------------------------------------------------------------------
\* Chains of invasions as in test_order_of_chain_of_invasions: three
\* territories of three players, movements t1->t2, t2->t3 and t3->t1 by the
\* owners of their origins, any number of each, created in any order; the
\* caller executes one of them.
\* ------------------------------------------------------------------------
OrderWorlds ==
    {World(<<1, 2, 3>>, <<MaxTroops, b, c>>) : b \in 0..MaxTroops, c \in 0..MaxTroops}

InitOrder == \E w \in OrderWorlds : InitWorld(w)

NextOrder ==
    \/ \E o \in 1..3, n \in {1, MaxNum} :
          /\ calls = <<>>
          /\ NewMovement(o, o, (o % 3) + 1, n)
    \/ \E i \in 1..MaxInstr : calls = <<>> /\ Execute(i)

SpecOrder == InitOrder /\ [][NextOrder]_vars

\* ------------------------------------------------------------------------
\* C33. When an invasion X is resolved, every not yet executed instruction of
\* the same set whose origin is X's destination reaches Executed before X
\* applies its penalty or trades any troop, unless a cycle is detected: they
\* are all executed and come before X in the order of completion, and the
\* call leaves what executing them first and X afterwards leaves.
\* ------------------------------------------------------------------------
\* the not yet executed instructions of the set that leave i's destination
Pending(i) ==
    FilterSeq(instruction_set,
              {j \in DOMAIN instructions : /\ instructions[j].origin = instructions[i].destination
                                           /\ ~instructions[j].is_executed}, 1)

\* the call that is being made met a cycle
CycleDetected ==
    \E j \in DOMAIN instructions :
        instructions'[j].is_part_of_loop /\ ~instructions[j].is_part_of_loop

\* the position of instruction i in the order of completion
Completed(log, i) == CHOOSE k \in DOMAIN log : log[k] = i

C33_SupersedingFirst ==
    [][(/\ Called
        /\ instructions[CalledId].instruction_type = "INVASION"
        /\ ~CycleDetected
        /\ \/ instructions'[CalledId].num_troops_moved > instructions[CalledId].num_troops_moved
           \/ penalties'[instructions[CalledId].origin] > penalties[instructions[CalledId].origin]) =>
          /\ \A j \in Range(Pending(CalledId)) :
                /\ instructions'[j].is_executed
                /\ j \in Range(finished')
                /\ CalledId \in Range(finished') =>
                      Completed(finished', j) < Completed(finished', CalledId)
          /\ \E first \in {ExecuteEach(Cur, Pending(CalledId), 1, FALSE)} :
                /\ first.exc = "none"
                /\ \E r \in {execute(first.s, CalledId)} :
                      /\ r.exc = CalledExc
                      /\ r.s.t = territories'
                      /\ r.s.m = instructions']_vars

\* test_order_of_chain_of_invasions with MaxTroops troops everywhere: the
\* call on t1->t2 completes t2->t3 first.
C33_Witness ==
    /\ Len(calls) = 1
    /\ calls[1].exc = "none"
    /\ Len(finished) = 2
    /\ finished[2] = calls[1].id
    /\ instructions[finished[2]].instruction_type = "INVASION"
    /\ instructions[finished[1]].origin = instructions[finished[2]].destination
    /\ instructions[finished[1]].num_troops_moved = MaxNum
    /\ instructions[finished[2]].num_troops_moved = MaxNum
    /\ penalties[instructions[finished[2]].origin] = NUM_INVASION_PENALTY

\* ------------------------------------------------------------------------
\* A destination that changes hands between classification and execution:
\* player 1 moves from t1 to t2, which is its own or neutral; player 2 moves
\* from t3 to t2, in the same InstructionSet or in a Turn of its own, and
\* may have taken t2 before player 1's movement is executed.
\* ------------------------------------------------------------------------
RedirectWorlds ==
    {World(<<1, o2, 2>>, <<a, b, MaxTroops>>) : o2 \in {None, 1}, a \in 0..MaxTroops, b \in 0..1}

InitRedirect == \E w \in RedirectWorlds : InitWorld(w)

NextRedirect ==
    \/ \E n \in 0..MaxNum :
          /\ calls = <<>> /\ turn.state = "none"
          /\ \A j \in DOMAIN instructions : instructions[j].issuer # 1
          /\ NewMovement(1, 1, 2, n)
    \/ \E p \in {2} :
          /\ calls = <<>> /\ turn.state = "none"
          /\ \A j \in DOMAIN instructions : instructions[j].issuer # p
          /\ NewMovement(p, 3, 2, MaxNum)
    \/ \E p \in {2} :
          /\ calls = <<>>
          /\ \A j \in DOMAIN instructions : instructions[j].issuer # p
          /\ NewInstruction(NewMovementRecord(p, 3, 2, MaxNum))
    \/ NewTurn
    \/ TurnInstruction
    \/ TurnSetDone
    \/ TurnReturn
    \/ \E i \in 1..MaxInstr : Len(calls) < MaxCalls - 1 /\ Execute(i)

SpecRedirect == InitRedirect /\ [][NextRedirect]_vars

\* ------------------------------------------------------------------------
\* C34. An instruction classified Expansion or Distribution whose
\* destination, at execution time, is owned by a player other than the issuer
\* is resolved as an invasion: the call ends as the call on the same
\* instruction classified Invasion ends, and a call that returns has applied
\* the penalty. If the destination is still neutral or the issuer's, it is
\* resolved as a plain move that destroys no troops.
\* ------------------------------------------------------------------------
TotalTroops(t) ==
    LET RECURSIVE Sum(_)
        Sum(k) == IF k = 0 THEN 0 ELSE t[k].troops + Sum(k - 1)
    IN Sum(Len(t))

C34_RedirectToInvasion ==
    [][(/\ Called
        /\ instructions[CalledId].instruction_type \in {"EXPANSION", "DISTRIBUTION"}
        /\ ~instructions[CalledId].is_executing
        /\ ~instructions[CalledId].is_executed
        /\ assert_is_valid(Cur, CalledId) = "none") =>
          LET m == instructions[CalledId] IN
          IF territories[m.destination].owner \notin {None, m.issuer}
          THEN /\ \E r \in {execute(SetField(Cur, CalledId, "instruction_type", "INVASION"),
                                    CalledId)} :
                     /\ r.exc = CalledExc
                     /\ r.s.t = territories'
                     /\ r.s.pen = penalties'
                     /\ r.s.m[CalledId].num_troops_moved = instructions'[CalledId].num_troops_moved
               /\ CalledExc = "none" =>
                     penalties'[m.origin] = penalties[m.origin] + NUM_INVASION_PENALTY
          ELSE /\ TotalTroops(territories') = TotalTroops(territories)
               /\ penalties' = penalties
               /\ territories'[m.destination].troops - territories[m.destination].troops
                     = instructions'[CalledId].num_troops_moved
               /\ territories'[m.destination].owner = m.issuer]_vars

\* Player 2 took t2; player 1's movement into it, classified Distribution (or
\* Expansion) before, paid the penalty.
C34_Witness ==
    /\ Len(calls) >= 1
    /\ calls[Len(calls)].exc = "none"
    /\ LET m == instructions[calls[Len(calls)].id] IN
       /\ m.instruction_type \in {"EXPANSION", "DISTRIBUTION"}
       /\ m.is_executed
       /\ m.issuer = 1
       /\ penalties[m.origin] = NUM_INVASION_PENALTY
       /\ \E j \in DOMAIN instructions : instructions[j].issuer = 2 /\ instructions[j].is_executed

\* ------------------------------------------------------------------------
\* Skirmish groups: the owners of t1, t2 and t3 each send at most one army to
\* t4, which is neutral and empty or held by a fourth player with one troop;
\* t3 is player 3's or a second territory of player 1. The caller builds one
\* InstructionSet and then executes instructions of it in any order.
\* ------------------------------------------------------------------------
SkirmishWorlds ==
    {World(<<1, 2, o3, o4>>, <<MaxTroops, b, c, IF o4 = None THEN 0 ELSE 1>>) :
        o3 \in {1, 3}, o4 \in {None, 4}, b \in 0..2, c \in {0, 2, MaxTroops}}

InitSkirmish == \E w \in SkirmishWorlds : InitWorld(w)

SkirmishRequests(o) ==
    CASE o = 1 -> 1..MaxNum
      [] o = 2 -> {1, 2}
      [] o = 3 -> {2, MaxNum}

NextSkirmish ==
    \/ \E o \in 1..3 : \E n \in SkirmishRequests(o) :
          /\ calls = <<>>
          /\ \A j \in DOMAIN instructions : instructions[j].origin < o
          /\ NewMovement(territories[o].owner, o, 4, n)
    \/ \E i \in 1..MaxInstr : Execute(i)

SpecSkirmish == InitSkirmish /\ [][NextSkirmish]_vars

\* One pass of resolve_skirmish over the peers sk, from state s: the losses
\* of lines 500-508 and the marking of lines 511-513.
RoundLosses(s, i, sk) ==
    SkirmishRound(s, i, sk, SetMin({ToMove(s, j) : j \in Range(sk)} \cup {ToMove(s, i)}))

RoundFair(s, i, sk) ==
    LET k == SetMin({ToMove(s, j) : j \in Range(sk)} \cup {ToMove(s, i)}) IN
    \E r \in {RoundLosses(s, i, sk)} :
    \E s1 \in {MarkSkirmishes(r.s, sk)} :
       /\ Troops(s, s.m[i].origin) - Troops(r.s, s.m[i].origin) = k
       /\ \A j \in Range(sk) : Troops(s, s.m[j].origin) - Troops(r.s, s.m[j].origin) = k
       /\ \A j \in Range(sk) :
             (s1.m[j].is_executed /\ ~s.m[j].is_executed) =>
                s1.m[j].num_troops_moved = s1.m[j].num_troops

\* A skirmish instruction that execute would resolve: it passes validation
\* and is neither executing nor executed.
Skirmishing(i) ==
    /\ i \in DOMAIN instructions
    /\ instructions[i].instruction_type = "SKIRMISH"
    /\ instructions[i].skirmishing_movements # <<>>
    /\ ~instructions[i].is_executing
    /\ ~instructions[i].is_executed
    /\ assert_is_valid(Cur, i) = "none"

\* ------------------------------------------------------------------------
\* C35. In every round of resolve_skirmish the origin of the executing
\* instruction and the origin of each peer lose the same number of troops,
\* the minimum of the troops still to move over the instruction and its
\* peers, and a peer is marked executed only when it has moved all the
\* troops it requested.
\* ------------------------------------------------------------------------
C35_EqualLosses ==
    \A i \in DOMAIN instructions :
       Skirmishing(i) => RoundFair(Cur, i, instructions[i].skirmishing_movements)

\* The same, for the rounds in which every peer's origin holds the troops the
\* peer still has to move.
PeersSupplied(s, i, sk) ==
    \A j \in Range(sk) : Troops(s, s.m[j].origin) >= ToMove(s, j)

C35_EqualLossesSupplied ==
    \A i \in DOMAIN instructions :
       (Skirmishing(i) /\ PeersSupplied(Cur, i, instructions[i].skirmishing_movements))
          => RoundFair(Cur, i, instructions[i].skirmishing_movements)

\* A call on a valid skirmish instruction stopped inside a round: the origin
\* of the instruction lost a troop that a peer's origin did not have.
C35_AbortedRound ==
    /\ Len(calls) = 1
    /\ calls[1].exc = "InsufficientUnitsException"
    /\ instructions[calls[1].id].instruction_type = "SKIRMISH"
    /\ territories[instructions[calls[1].id].origin].troops < fixture.troops[instructions[calls[1].id].origin]

\* ------------------------------------------------------------------------
\* C36. An invasion hands the destination to the attacker only when at
\* least one attacking troop is moved into it and every defending troop has
\* been eliminated; when no attacking troop moves in and the destination is
\* left empty it becomes neutral; otherwise the destination keeps its owner.
\* Stated for a call on a valid invasion with no unexecuted movement leaving
\* its destination, so that the call resolves this one battle: with "fought"
\* the troops the origin lost beyond the penalty and "stood" the defenders
\* beyond the penalty.
\* ------------------------------------------------------------------------
C36_TakeOverRule ==
    [][(/\ Called
        /\ instructions[CalledId].instruction_type = "INVASION"
        /\ ~instructions[CalledId].is_executing
        /\ ~instructions[CalledId].is_executed
        /\ assert_is_valid(Cur, CalledId) = "none"
        /\ Pending(CalledId) = <<>>) =>
          LET m == instructions[CalledId]
              o == m.origin
              d == m.destination
              fought == (territories[o].troops - territories'[o].troops)
                           - (penalties'[o] - penalties[o])
              stood == territories[d].troops - (penalties'[d] - penalties[d])
              left == territories'[d].troops
          IN IF CalledExc # "none" THEN territories'[d].owner = territories[d].owner
             ELSE IF left = 0 THEN territories'[d].owner = None
             ELSE IF fought - left = stood
                  THEN territories'[d].owner = m.issuer
                  ELSE /\ territories'[d].owner = territories[d].owner
                       /\ fought = stood - left]_vars

\* An invasion that took the destination with what was left of its army.
C36_Witness ==
    /\ Len(calls) >= 1
    /\ calls[Len(calls)].exc = "none"
    /\ LET m == instructions[calls[Len(calls)].id] IN
       /\ m.instruction_type = "INVASION"
       /\ fixture.owners[m.destination] \notin {None, m.issuer}
       /\ fixture.troops[m.destination] > 0
       /\ territories[m.destination].owner = m.issuer
       /\ territories[m.destination].troops > 0
       /\ Len(instructions) = 1

\* ------------------------------------------------------------------------
\* C37. The skirmish peer list of an instruction never contains an
\* instruction issued by the same player: two armies of one player to the
\* same destination do not skirmish with each other.
\* ------------------------------------------------------------------------
C37_NoOwnPeers ==
    \A i \in DOMAIN instructions :
       \A j \in Range(instructions[i].skirmishing_movements) :
          instructions[j].issuer # instructions[i].issuer

\* Player 1's two armies fought each other: one call, on the army from t1,
\* and each of player 1's origins lost more troops than player 2 sent.
C37_OwnArmiesFight ==
    /\ Len(calls) = 1
    /\ calls[1].exc = "none"
    /\ Len(instructions) = 3
    /\ instructions[calls[1].id].origin = 1
    /\ instructions[3].issuer = 1
    /\ fixture.owners[4] = None
    /\ territories[4].troops = 0
    /\ fixture.troops[1] - territories[1].troops > instructions[2].num_troops
    /\ fixture.troops[3] - territories[3].troops > instructions[2].num_troops
    /\ fixture.troops[2] - territories[2].troops = instructions[2].num_troops

\* ------------------------------------------------------------------------
\* C38. For a skirmish group (instructions of several players to one
\* destination in one set, each of them valid), executing the instructions in
\* any order until all are executed completes without error and yields the
\* same troop counts and owners, whichever army is executed first.
\* ------------------------------------------------------------------------
\* the caller executes, in this order, the instructions not yet executed
RECURSIVE Drive(_, _, _)
Drive(s, order, k) ==
    IF k > Len(order) THEN Ok(s)
    ELSE IF s.m[order[k]].is_executed THEN Drive(s, order, k + 1)
    ELSE Only({IF r.exc # "none" THEN r ELSE Drive(r.s, order, k + 1) :
                 r \in {execute(s, order[k])}})

Orders ==
    {order \in [DOMAIN instructions -> DOMAIN instructions] :
        \A j, k \in DOMAIN instructions : j # k => order[j] # order[k]}

SkirmishGroup ==
    /\ Len(instructions) >= 2
    /\ \A i \in DOMAIN instructions :
          /\ instructions[i].instruction_type = "SKIRMISH"
          /\ assert_is_valid(Cur, i) = "none"
    /\ \A i, j \in DOMAIN instructions :
          i # j => instructions[i].issuer # instructions[j].issuer

C38_AnyOrder ==
    (calls = <<>> /\ SkirmishGroup) =>
       \A order \in Orders :
          \E r \in {Drive(Cur, order, 1)} :
             /\ r.exc = "none"
             /\ \A j \in DOMAIN instructions : r.s.m[j].is_executed
             /\ \A other \in Orders : r.s.t = Drive(Cur, other, 1).s.t

\* A smaller army of a group was executed first and the call on the larger
\* one, the next in the caller's order, raised.
C38_SecondCallFails ==
    /\ Len(calls) = 2
    /\ calls[1].exc = "none"
    /\ calls[2].exc # "none"
    /\ ~instructions[calls[2].id].is_executed
    /\ instructions[calls[1].id].num_troops < instructions[calls[2].id].num_troops
    /\ \A i \in DOMAIN instructions :
          /\ instructions[i].instruction_type = "SKIRMISH"
          /\ instructions[i].num_troops <= fixture.troops[instructions[i].origin]
    /\ \A i, j \in DOMAIN instructions :
          i # j => instructions[i].issuer # instructions[j].issuer

\* ------------------------------------------------------------------------
\* C39. No Movement execution creates a troop: after every call the total
\* number of troops in the world is at most the total before it, and a call
\* that resolves as an expansion or a distribution (destination neutral or
\* the issuer's) leaves the total unchanged.
\* ------------------------------------------------------------------------
C39_NoTroopCreated ==
    [][Called =>
          /\ TotalTroops(territories') <= TotalTroops(territories)
          /\ (/\ instructions[CalledId].instruction_type \in {"EXPANSION", "DISTRIBUTION"}
              /\ territories[instructions[CalledId].destination].owner
                    \in {None, instructions[CalledId].issuer})
                => TotalTroops(territories') = TotalTroops(territories)]_vars

\* An invasion was repelled: both sides lost troops, none was created, and
\* the world holds fewer troops than it started with.
C39_Witness ==
    /\ Len(calls) = 1
    /\ calls[1].exc = "none"
    /\ Len(territories) = 2
    /\ LET m == instructions[calls[1].id] IN
       /\ m.instruction_type = "INVASION"
       /\ m.is_executed
       /\ territories[m.destination].owner = fixture.owners[m.destination]
       /\ territories[m.destination].troops < fixture.troops[m.destination]
       /\ territories[m.origin].troops < fixture.troops[m.origin]
    /\ TotalTroops(territories) < fixture.troops[1] + fixture.troops[2]

\* ------------------------------------------------------------------------
\* A failed call and its repair: player 1 moves from t1 to t2, with more
\* troops than t1 holds or without an InstructionSet; after the call the
\* caller allows a partial move or adds the movement to the set, and calls
\* again. Player 2, when it holds t2, may invade t1 in return.
\* ------------------------------------------------------------------------
RepairWorlds ==
    {World(<<1, o2>>, <<a, b>>) : o2 \in {None, 2}, a \in 0..MaxTroops, b \in {0, MaxTroops}}

InitRepair == \E w \in RepairWorlds : InitWorld(w)

NextRepair ==
    \/ \E n \in 1..MaxNum : instructions = <<>> /\ NewMovement(1, 1, 2, n)
    \/ \E n \in 1..MaxNum : instructions = <<>> /\ NewInstruction(NewMovementRecord(1, 1, 2, n))
    \/ \E p \in {2} :
          /\ Len(instructions) = 1
          /\ calls = <<>>
          /\ territories[2].owner = p
          /\ NewMovement(p, 2, 1, MaxNum)
    \/ \E i \in 1..MaxInstr : AddInstruction(i)
    \/ \E i \in 1..MaxInstr : AllowInsufficientTroops(i, TRUE)
    \/ \E i \in 1..MaxInstr : Execute(i)

SpecRepair == InitRepair /\ [][NextRepair]_vars

\* What stops execute at lines 580-584 for instruction i, "none" if nothing.
StartFailure(i) ==
    IF assert_is_valid(Cur, i) # "none" THEN assert_is_valid(Cur, i)
    ELSE IF instructions[i].instruction_set = None THEN "InstructionNotInInstructionSet"
    ELSE "none"

\* An earlier call on i raised and no troop has moved since the world was
\* built: that call stopped at lines 580-584.
FailedBefore(i) ==
    /\ \E k \in DOMAIN calls : calls[k].id = i /\ calls[k].exc # "none"
    /\ \A k \in DOMAIN calls : calls[k].exc # "none"
    /\ \A t \in DOMAIN territories : territories[t].troops = fixture.troops[t]

\* ------------------------------------------------------------------------
\* C40. A Movement.execute call that fails validation, or fails because the
\* instruction is in no InstructionSet, leaves the instruction not started
\* (not executing, which is what the cycle tie-break counts), and once the
\* caller has repaired the cause a second call on it is validated again and
\* does not raise InstructionAlreadyExecuting.
\* ------------------------------------------------------------------------
C40_FailedCallNotStuck ==
    [][Called =>
          /\ (/\ ~instructions[CalledId].is_executing
              /\ ~instructions[CalledId].is_executed
              /\ StartFailure(CalledId) # "none")
                => /\ CalledExc = StartFailure(CalledId)
                   /\ ~instructions'[CalledId].is_executing
          /\ (/\ FailedBefore(CalledId)
              /\ ~instructions[CalledId].is_executed
              /\ StartFailure(CalledId) = "none")
                => CalledExc # "InstructionAlreadyExecuting"]_vars

\* The caller allowed a partial move, or added the movement to the set, after
\* the first call failed; the second call raised InstructionAlreadyExecuting.
C40_StuckAfterRepair ==
    /\ Len(calls) = 2
    /\ calls[1].id = 1
    /\ calls[2].id = 1
    /\ calls[1].exc \in {"InsufficientUnitsException", "InstructionNotInInstructionSet"}
    /\ calls[2].exc = "InstructionAlreadyExecuting"
    /\ instructions[1].instruction_set # None
    /\ assert_is_valid(Cur, 1) = "none"
    /\ ~instructions[1].is_executed

\* Player 2's call met the movement left executing by the failed call and
\* took it for a cycle.
C40_CountedInTieBreak ==
    /\ Len(calls) = 2
    /\ calls[1].id = 1
    /\ calls[1].exc = "InsufficientUnitsException"
    /\ calls[2].id = 2
    /\ calls[2].exc = "UnwindingLoopedInstructions"

====
